---- MODULE Spec2Model ----
(***************************************************************************)
(* Router operations of nxtp: the sender/receiver cancel operation         *)
(* (lib/operations/cancel.ts) and the auction evaluator newAuction         *)
(* (lib/operations/auction.ts), each modelled as a state machine whose     *)
(* steps are the await points of the TypeScript handler, the gas fee       *)
(* calculation and the ChainReader of the transaction service they call,   *)
(* and the startup of the router (router.ts).                              *)
(***************************************************************************)
EXTENDS Integers, Sequences, FiniteSets, TLC

VARIABLES
    now,              \* the NTP clock, in seconds (getNtpTimeSeconds)
    recvRecord,       \* the receiver-chain record of (transactionId, user)
    preparedAt,       \* timestamp of the block of the sender prepare
    isRouterContract, \* context.isRouterContract
    relayerAsset,     \* chainConfig[receivingChainId].routerContractRelayerAsset
    cancelCall,       \* the cancel calls: position and locals of each
    cancelCount,      \* number of cancel calls started so far
    dispatched,       \* the calls made to contractWriter.cancel, in order
    AUCTION_REQUEST_MAP, \* rate-limiter map: key -> time of the last bid, ms (0: no entry)
    syncRecords,      \* per chain, the synced flags contractReader.getSyncRecords returns
    assetBalance,     \* per chain, the router liquidity contractReader.getAssetBalance returns
    nativeBalance,    \* per chain, the router's native balance txService.getBalance returns
    envChanges,       \* number of changes of the three above so far
    auctionCall,      \* the newAuction calls: position and locals of each
    auctionCount,     \* number of newAuction calls started so far
    previousRequest,  \* history: key and sampled time (ms) of the previous request
    lastBidAt,        \* history: key -> time sampled by the request that last returned a bid, ms
    receivedAuction,  \* the receivedAuction counter: labels -> value
    oracle,           \* per chain, the gas price and the prices the price oracle returns
    gasFeeCall,       \* a call of txService.calculateGasFee: arguments and result
    chainReader,      \* the ChainReader: its configuration, providers and current call
    startup           \* makeRouter: its position, the configuration and the exit code

cancelVars ==
    <<recvRecord, preparedAt, isRouterContract, relayerAsset, cancelCall,
      cancelCount, dispatched>>

auctionVars ==
    <<AUCTION_REQUEST_MAP, syncRecords, assetBalance, nativeBalance, envChanges,
      auctionCall, auctionCount, previousRequest, lastBidAt, receivedAuction>>

feeVars == <<oracle, gasFeeCall, chainReader, startup>>

vars == <<now, cancelVars, auctionVars, feeVars>>

(***************************************************************************)
(* cancel                                                                  *)
(***************************************************************************)

\* export const SENDER_PREPARE_BUFFER_TIME = 60 * 13
SENDER_PREPARE_BUFFER_TIME == 780

AddressZero == "0x0000000000000000000000000000000000000000"

\* the two chains of the transaction (invariantData)
sendingChainId == 1337
receivingChainId == 1338

\* number of cancel calls of one behaviour
MaxCancelCalls == 2

\* clock values of the cancel scenarios, around the prepare buffer of a
\* sender prepare mined at 1000 (1000 + 780 = 1780)
CancelTimes == {1600, 1779, 1780, 2500}
PreparedTimestamps == {1000, 1001}
Expiries == {1500, 1780, 3000}
RelayerFees == {0, 7}
RelayerAssets == {"", "0xRelayerAsset"}

CancelIds == {1, 2}

TransactionStatus == {"Prepared", "Fulfilled", "Cancelled"}
NoRecord == [status |-> "None", expiry |-> 0]
Records == {NoRecord} \cup [status : TransactionStatus, expiry : Expiries]

NoBlock == -1
IdleCancel ==
    [pc |-> "idle", side |-> "sender", expiry |-> 0, existing |-> NoRecord,
     currentTime |-> 0, preparedBlock |-> NoBlock, relayerFee |-> 0,
     relayerFeeAsset |-> AddressZero, error |-> "none",
     enteredWhileInFlight |-> FALSE,
     validInvariantData |-> TRUE, validInput |-> TRUE, reads |-> {},
     feeAction |-> "none", sent |-> FALSE]

\* the steps of a call between its read of the chain state and the end of its
\* call of contractWriter.cancel
InFlightSteps ==
    {"getNtpTimeSeconds", "getTransactionReceipt", "getBlock", "calculateGasFee",
     "contractWriter"}

\* history: another call for the same transaction and side is in flight
OtherCancelInFlight(c, side) ==
    \E d \in CancelIds \ {c} :
        cancelCall[d].side = side /\ cancelCall[d].pc \in InFlightSteps

\* a receiver record blocks the sender cancel only while it is Prepared
ReceiverTxBlocksCancel_OnlyPrepared(existing, currentTime) ==
    /\ existing # NoRecord
    /\ existing.status = "Prepared"
    /\ currentTime < existing.expiry

\* if (existing && existing.status !== Cancelled && currentTime < existing.txData.expiry)
ReceiverTxBlocksCancel(existing, currentTime) ==
    /\ existing # NoRecord
    /\ existing.status # "Cancelled"
    /\ currentTime < existing.expiry

\* the prepare buffer is left out of the comparison
SenderPrepareTooNew_NoBuffer(preparedBlock, currentTime) ==
    \/ preparedBlock = NoBlock
    \/ currentTime < preparedBlock

\* a prepare that is exactly as old as the buffer is still too new
SenderPrepareTooNew_Inclusive(preparedBlock, currentTime) ==
    \/ preparedBlock = NoBlock
    \/ currentTime <= preparedBlock + SENDER_PREPARE_BUFFER_TIME

\* if (!preparedBlock || currentTime < preparedBlock.timestamp + SENDER_PREPARE_BUFFER_TIME)
SenderPrepareTooNew(preparedBlock, currentTime) ==
    \/ preparedBlock = NoBlock
    \/ currentTime < preparedBlock + SENDER_PREPARE_BUFFER_TIME

\* only the cancel input is validated
SchemasValid_InputOnly(validInvariantData, validInput) ==
    validInput

\* if (!validInvariantData) throw new ParamsInvalid; if (!validInput) throw new ParamsInvalid
SchemasValid(validInvariantData, validInput) ==
    validInvariantData /\ validInput

\* the relayer fee is computed for the sender side too
RelayerFeeApplies_AnySide(side, routerContract) ==
    routerContract

\* if (side === "sender") { ... } else { if (isRouterContract) { ... } }
RelayerFeeApplies(side, routerContract) ==
    side # "sender" /\ routerContract

\* values of chainConfig[receivingChainId].routerContractRelayerAsset: not
\* configured, an address in checksum form, the same address in lower case,
\* and a string that is not an address
RelayerAssetConfigs == {"", "0xRelayerAsset", "0xrelayerasset", "0xNotAnAddress"}

InvalidAddress == "INVALID_ARGUMENT"

\* utils.getAddress: the checksum form of an address; it throws for a string
\* that is not an address
getAddress(address) ==
    CASE address = "0xrelayerasset" -> "0xRelayerAsset"
      [] address = "0xNotAnAddress" -> InvalidAddress
      [] OTHER -> address

\* utils.getAddress(config.chainConfig[receivingChainId].routerContractRelayerAsset || AddressZero)
RouterRelayerFeeAsset(configured) ==
    getAddress(IF configured # "" THEN configured ELSE AddressZero)

\* schema validation of invariantData and input, then the branch on side
CancelStart(c, side, validInvariantData, validInput, expiry) ==
    LET call == [IdleCancel EXCEPT !.side = side, !.expiry = expiry,
                   !.validInvariantData = validInvariantData,
                   !.validInput = validInput]
    IN
    /\ cancelCall[c].pc = "idle"
    /\ cancelCount < MaxCancelCalls
    /\ cancelCount' = cancelCount + 1
    /\ cancelCall' = [cancelCall EXCEPT ![c] =
         IF ~SchemasValid(validInvariantData, validInput)
         THEN [call EXCEPT !.pc = "done", !.error = "ParamsInvalid"]
         ELSE [call EXCEPT
                 !.enteredWhileInFlight = OtherCancelInFlight(c, side),
                 !.pc = IF RelayerFeeApplies(side, isRouterContract)
                        THEN "calculateGasFee"
                        ELSE IF side = "sender" THEN "getTransactionForChain"
                        ELSE "contractWriter"]]
    /\ UNCHANGED <<auctionVars, now, recvRecord, preparedAt, isRouterContract, relayerAsset, dispatched, feeVars>>

\* const existing = await contractReader.getTransactionForChain(...)
CancelGetTransactionForChain(c) ==
    /\ cancelCall[c].pc = "getTransactionForChain"
    /\ cancelCall' = [cancelCall EXCEPT ![c].existing = recvRecord,
                                        ![c].reads = @ \cup {"getTransactionForChain"},
                                        ![c].pc = "getNtpTimeSeconds"]
    /\ UNCHANGED <<auctionVars, now, recvRecord, preparedAt, isRouterContract, relayerAsset,
                   cancelCount, dispatched, feeVars>>

\* const currentTime = await getNtpTimeSeconds(); then the ReceiverTxExists check
CancelGetNtpTime(c) ==
    /\ cancelCall[c].pc = "getNtpTimeSeconds"
    /\ cancelCall' = [cancelCall EXCEPT ![c] =
         IF ReceiverTxBlocksCancel(cancelCall[c].existing, now)
         THEN [@ EXCEPT !.currentTime = now, !.pc = "done", !.error = "ReceiverTxExists"]
         ELSE [@ EXCEPT !.currentTime = now, !.pc = "getTransactionReceipt"]]
    /\ UNCHANGED <<auctionVars, now, recvRecord, preparedAt, isRouterContract, relayerAsset,
                   cancelCount, dispatched, feeVars>>

\* const receipt = await txService.getTransactionReceipt(...); receipt.blockNumber
\* of a receipt that was not found throws a TypeError
CancelGetTransactionReceipt(c) ==
    /\ cancelCall[c].pc = "getTransactionReceipt"
    /\ \E found \in BOOLEAN :
         cancelCall' = [cancelCall EXCEPT ![c] =
           IF found
           THEN [@ EXCEPT !.reads = @ \cup {"getTransactionReceipt"}, !.pc = "getBlock"]
           ELSE [@ EXCEPT !.reads = @ \cup {"getTransactionReceipt"}, !.pc = "done",
                          !.error = "TypeError"]]
    /\ UNCHANGED <<auctionVars, now, recvRecord, preparedAt, isRouterContract, relayerAsset,
                   cancelCount, dispatched, feeVars>>

\* const preparedBlock = await txService.getBlock(...); then the SenderTxTooNew check
CancelGetBlock(c) ==
    /\ cancelCall[c].pc = "getBlock"
    /\ \E block \in {NoBlock, preparedAt} :
         cancelCall' = [cancelCall EXCEPT ![c] =
           IF SenderPrepareTooNew(block, cancelCall[c].currentTime)
           THEN [@ EXCEPT !.preparedBlock = block, !.reads = @ \cup {"getBlock"},
                          !.pc = "done", !.error = "SenderTxTooNew"]
           ELSE [@ EXCEPT !.preparedBlock = block, !.reads = @ \cup {"getBlock"},
                          !.pc = "contractWriter"]]
    /\ UNCHANGED <<auctionVars, now, recvRecord, preparedAt, isRouterContract, relayerAsset,
                   cancelCount, dispatched, feeVars>>

\* receiver side of a router contract: the relayer fee asset, the decimals
\* read and the fee of the action "cancel"
CancelCalculateGasFee(c) ==
    /\ cancelCall[c].pc = "calculateGasFee"
    /\ \E fee \in RelayerFees :
         cancelCall' = [cancelCall EXCEPT ![c] =
           IF RouterRelayerFeeAsset(relayerAsset) = InvalidAddress
           THEN [@ EXCEPT !.pc = "done", !.error = InvalidAddress]
           ELSE [@ EXCEPT !.relayerFeeAsset = RouterRelayerFeeAsset(relayerAsset),
                          !.reads = @ \cup {"getDecimalsForAsset"},
                          !.feeAction = "cancel",
                          !.relayerFee = fee,
                          !.pc = "contractWriter"]]
    /\ UNCHANGED <<auctionVars, now, recvRecord, preparedAt, isRouterContract, relayerAsset,
                   cancelCount, dispatched, feeVars>>

\* every cancel goes to the sending chain
cancelChain_Sending(side) ==
    sendingChainId

\* cancelChain = invariantData.sendingChainId for the sender side,
\* invariantData.receivingChainId otherwise
cancelChain(side) ==
    IF side = "sender" THEN sendingChainId ELSE receivingChainId

\* const receipt = await contractWriter.cancel(cancelChain, ...); return receipt
CancelDispatch(c) ==
    /\ cancelCall[c].pc = "contractWriter"
    /\ dispatched' = Append(dispatched,
         [chainId |-> cancelChain(cancelCall[c].side),
          side |-> cancelCall[c].side,
          expiry |-> cancelCall[c].expiry,
          signature |-> "0x",
          relayerFeeAsset |-> cancelCall[c].relayerFeeAsset,
          relayerFee |-> cancelCall[c].relayerFee])
    /\ cancelCall' = [cancelCall EXCEPT ![c].pc = "done", ![c].sent = TRUE]
    /\ UNCHANGED <<auctionVars, now, recvRecord, preparedAt, isRouterContract, relayerAsset, cancelCount, feeVars>>

\* the promise of a finished call settles; its slot is free for the next call
CancelReturn(c) ==
    /\ cancelCall[c].pc = "done"
    /\ cancelCall' = [cancelCall EXCEPT ![c] = IdleCancel]
    /\ UNCHANGED <<auctionVars, now, recvRecord, preparedAt, isRouterContract, relayerAsset,
                   cancelCount, dispatched, feeVars>>

\* the receiver chain: the record is prepared, then fulfilled or cancelled
ReceiverChainStep ==
    /\ \/ /\ recvRecord = NoRecord
          /\ \E e \in Expiries : recvRecord' = [status |-> "Prepared", expiry |-> e]
       \/ /\ recvRecord.status = "Prepared"
          /\ \E s \in {"Fulfilled", "Cancelled"} : recvRecord' = [recvRecord EXCEPT !.status = s]
    /\ UNCHANGED <<auctionVars, now, preparedAt, isRouterContract, relayerAsset, cancelCall,
                   cancelCount, dispatched, feeVars>>

\* wall-clock time passes
CancelTick ==
    /\ \E t \in CancelTimes : t > now /\ now' = t
    /\ UNCHANGED <<cancelVars, auctionVars, feeVars>>

(***************************************************************************)
(* calculateGasFee and calculateGasFeeInReceivingToken (txService)         *)
(***************************************************************************)

unconfiguredChainId == 1339
Chains == {sendingChainId, receivingChainId, unconfiguredChainId}
ConfiguredChains == {sendingChainId, receivingChainId}

\* the static table of gas estimates, keyed by action
GAS_ESTIMATES_Swapped == [prepare |-> 200000, fulfill |-> 100000]

GAS_ESTIMATES == [prepare |-> 100000, fulfill |-> 200000]

\* the chains that have a price oracle contract
CHAINS_WITH_PRICE_ORACLES == ConfiguredChains

\* the decimals of a token: 18, and a token with fewer decimals
Decimals == {15, 18}

\* what getGasPrice and getTokenPrice return for a chain: the gas price, the
\* price of the native asset and the (nonzero) price of the token
Readings ==
    [gasPrice : {0, 1, 5}, ethPrice : {1, 31}, tokenPrice : {1, 7, 100000}]

Pow10(n) ==
    IF n = 0 THEN 1 ELSE IF n = 3 THEN 1000 ELSE 0

\* the fee is computed without looking at the list of oracle chains
calculateGasFee_Everywhere(chainId, decimals, action, reading) ==
    ((reading.gasPrice * GAS_ESTIMATES[action] * reading.ethPrice)
        \div reading.tokenPrice) \div Pow10(18 - decimals)

\* calculateGasFee: 0 for a chain without price oracle; otherwise
\* gasPrice * gasEstimate(action) * ethPrice / tokenPrice, scaled from 18
\* decimals to the decimals of the token; every division is floor
calculateGasFee(chainId, decimals, action, reading) ==
    IF chainId \notin CHAINS_WITH_PRICE_ORACLES
    THEN 0
    ELSE ((reading.gasPrice * GAS_ESTIMATES[action] * reading.ethPrice)
             \div reading.tokenPrice) \div Pow10(18 - decimals)

\* the fee of the receiving chain alone
calculateGasFeeInReceivingToken_ReceiverOnly(sendingChain, receivingChain, outputDecimals, prices) ==
    calculateGasFee(receivingChain, outputDecimals, "prepare", prices[receivingChain])

\* calculateGasFeeInReceivingToken: the fee of the fulfill on the sending
\* chain plus the fee of the prepare on the receiving chain
calculateGasFeeInReceivingToken(sendingChain, receivingChain, outputDecimals, prices) ==
    calculateGasFee(sendingChain, outputDecimals, "fulfill", prices[sendingChain])
        + calculateGasFee(receivingChain, outputDecimals, "prepare", prices[receivingChain])

NoGasFeeCall ==
    [pc |-> "idle", chainId |-> sendingChainId, decimals |-> 18, action |-> "prepare",
     result |-> -1]

\* the calls of calculateGasFee: a chain with and a chain without price
\* oracle, for the actions prepare and fulfill
GasFeeCalls ==
    [pc : {"called"}, chainId : {receivingChainId, unconfiguredChainId},
     decimals : Decimals, action : {"prepare", "fulfill"}, result : {-1}]

\* calculateGasFee returns
CalculateGasFee ==
    /\ gasFeeCall.pc = "called"
    /\ gasFeeCall' = [gasFeeCall EXCEPT
         !.pc = "done",
         !.result = calculateGasFee(gasFeeCall.chainId, gasFeeCall.decimals,
                                    gasFeeCall.action, oracle[gasFeeCall.chainId])]
    /\ UNCHANGED <<now, cancelVars, auctionVars, oracle, chainReader, startup>>

\* the gas price and the prices during the auctions: no gas price, or a
\* fulfill on the sending chain and a prepare on the receiving chain that
\* cost one unit of the token each
FreeGas ==
    [c \in Chains |-> [gasPrice |-> 0, ethPrice |-> 1, tokenPrice |-> 100000]]

AuctionOracles ==
    {FreeGas,
     [c \in Chains |-> [gasPrice |-> 1, ethPrice |-> 1,
                        tokenPrice |-> IF c = sendingChainId THEN 200000 ELSE 100000]]}

\* the decimals getDecimalsForAsset returns for the assets of the swap pool
assetDecimals == 18

(***************************************************************************)
(* ChainReader (txService): provider setup, reads and token prices         *)
(***************************************************************************)

\* number of ChainReader calls of one behaviour
MaxReaderCalls == 2

\* the chains configuration handed to the ChainReader: for each chain it
\* lists, the number of providers
ReaderConfigs == UNION {[S -> {0, 1}] : S \in SUBSET Chains}

\* setup fails only when no chain at all has a provider
setupProvidersFails_AllEmpty(config) ==
    \A c \in DOMAIN config : config[c] = 0

\* setupProviders throws ConfigurationError at a chain whose providers list
\* is empty
setupProvidersFails(config) ==
    \E c \in DOMAIN config : config[c] = 0

\* the read operations and the provider method each of them calls
ReadOps ==
    {"readTx", "getBalance", "getDecimalsForAsset", "getBlockTime", "getBlockNumber",
     "getTransactionReceipt", "getCode"}

PriceOps == {"getTokenPrice", "getTokenPriceFromOnChain"}

\* every operation goes through readTransaction
ProviderMethod_ReadTransaction(op) ==
    "readTransaction"

ProviderMethod(op) ==
    IF op \in PriceOps \cup {"readTx"} THEN "readTransaction" ELSE op

\* what a provider answers: a value, or it rejects with an RpcError
ProviderReplies == {"0x12345789", "5812471953821", "RpcError"}

NoProvider == 0

\* a chain without provider is served by the provider of another chain
getProvider_AnyChain(providers, chainId) ==
    IF chainId \in providers THEN chainId
    ELSE IF providers # {} THEN CHOOSE c \in providers : TRUE
    ELSE NoProvider

\* getProvider: the provider of the chain; the caller throws
\* ProviderNotConfigured when there is none
getProvider(providers, chainId) ==
    IF chainId \in providers THEN chainId ELSE NoProvider

\* one price oracle address serves every chain
getDeployedPriceOracleContract_OneAddress(chainId) ==
    IF chainId \in CHAINS_WITH_PRICE_ORACLES
    THEN <<"PriceOracle", sendingChainId>>
    ELSE <<>>

\* getDeployedPriceOracleContract: the address of the price oracle deployed
\* on the chain, or undefined (the empty tuple)
getDeployedPriceOracleContract(chainId) ==
    IF chainId \in CHAINS_WITH_PRICE_ORACLES
    THEN <<"PriceOracle", chainId>>
    ELSE <<>>

\* the address a read that is not a price read is sent to
ReadTarget == <<"0xa1">>

IdleRead ==
    [pc |-> "idle", op |-> "readTx", chainId |-> sendingChainId, reads |-> <<>>,
     providerCalls |-> <<>>, reply |-> "none", result |-> "none", error |-> "none"]

\* new ChainReader(logger, { chains }, signer): the constructor calls
\* setupProviders
ChainReaderConstruct ==
    /\ chainReader.status = "new"
    /\ chainReader' = [chainReader EXCEPT
         !.status = IF setupProvidersFails(chainReader.config) THEN "ConfigurationError"
                    ELSE "operating",
         !.providers = IF setupProvidersFails(chainReader.config) THEN {}
                       ELSE DOMAIN chainReader.config]
    /\ UNCHANGED <<now, cancelVars, auctionVars, oracle, gasFeeCall, startup>>

\* a read operation or a token price operation, up to its call of the
\* provider: a price operation looks up the price oracle and issues a readTx
\* to its address, and every read looks up the provider of the chain
ChainReaderCall(op, chainId) ==
    LET priceOracle == getDeployedPriceOracleContract(chainId)
        call == [IdleRead EXCEPT !.op = op, !.chainId = chainId,
                   !.reads = IF op \in PriceOps /\ priceOracle # <<>>
                             THEN <<[chainId |-> chainId, to |-> priceOracle]>>
                             ELSE <<>>]
        provider == getProvider(chainReader.providers, chainId)
    IN
    /\ chainReader.status = "operating"
    /\ chainReader.call.pc = "idle"
    /\ chainReader.count < MaxReaderCalls
    /\ chainReader' = [chainReader EXCEPT
         !.count = @ + 1,
         !.call =
            IF op \in PriceOps /\ priceOracle = <<>>
            THEN [call EXCEPT !.pc = "done", !.error = "ChainNotSupported"]
            ELSE IF provider = NoProvider
            THEN [call EXCEPT !.pc = "done", !.error = "ProviderNotConfigured"]
            ELSE [call EXCEPT !.pc = "provider",
                    !.providerCalls =
                        <<[provider |-> provider, method |-> ProviderMethod(op),
                           to |-> IF op \in PriceOps THEN priceOracle ELSE ReadTarget]>>]]
    /\ UNCHANGED <<now, cancelVars, auctionVars, oracle, gasFeeCall, startup>>

\* the provider answers: the operation returns what it answered, or rejects
\* with its error
ChainReaderProviderReply(reply) ==
    /\ chainReader.call.pc = "provider"
    /\ chainReader' = [chainReader EXCEPT
         !.call = IF reply = "RpcError"
                  THEN [@ EXCEPT !.pc = "done", !.reply = reply, !.error = "RpcError"]
                  ELSE [@ EXCEPT !.pc = "done", !.reply = reply, !.result = reply]]
    /\ UNCHANGED <<now, cancelVars, auctionVars, oracle, gasFeeCall, startup>>

\* the promise of a finished call settles
ChainReaderReturn ==
    /\ chainReader.call.pc = "done"
    /\ chainReader' = [chainReader EXCEPT !.call = IdleRead]
    /\ UNCHANGED <<now, cancelVars, auctionVars, oracle, gasFeeCall, startup>>

\* a ChainReader of the two configured chains, with no call made
ChainReaderAtRest ==
    chainReader = [config |-> [c \in ConfiguredChains |-> 1], status |-> "operating",
                   providers |-> ConfiguredChains, call |-> IdleRead, count |-> 0]

(***************************************************************************)
(* makeRouter and getContext (router.ts)                                   *)
(***************************************************************************)

\* process.exit() is called without a code, and process.exitCode is never set
NoExitCode == -1

\* process.exit(code): the exit code of the process is code, or, without a
\* code, process.exitCode, which is 0 unless it was set
processExit(code) ==
    IF code = NoExitCode THEN 0 ELSE code

\* the configuration getConfig loads: the mnemonic, or none when the router
\* signs with a web3signer, and the three modes
StartupConfigs ==
    [mnemonic : {"undefined", "candy maple cake"}, diagnosticMode : BOOLEAN,
     cleanUpMode : BOOLEAN, priceCacheMode : BOOLEAN]

\* Object.assign(context.config, context.config.mnemonic ? { mnemonic: "......." }
\* : { mnemonic: "N/A" }): the target of the assignment is context.config
ConfigAfterLog(config) ==
    [config EXCEPT !.mnemonic = IF config.mnemonic # "undefined" THEN "......."
                                ELSE "N/A"]

\* the fields of the context the operations of the router read
ContextFields ==
    {"config", "wallet", "logger", "messaging", "txService", "contractReader",
     "contractWriter"}

NoContextCall == [called |-> FALSE, threw |-> FALSE, context |-> {}]

\* the context is handed out whatever it holds
getContext_Unchecked(context) ==
    [called |-> TRUE, threw |-> FALSE, context |-> context]

\* getContext: throws "Context not created" when the context has no key,
\* returns the context otherwise
getContext(context) ==
    [called |-> TRUE, threw |-> context = {}, context |-> context]

\* the bindings makeRouter awaits, in order
BindSteps ==
    <<"bindContractReader", "bindMessaging", "bindPrices", "bindFastify", "bindMetrics">>

\* every binding runs, whatever the modes
BindingRuns_Always(config, step) ==
    TRUE

\* if (!diagnosticMode) bindContractReader; if (!cleanUpMode) bindMessaging;
\* if (priceCacheMode) bindPrices; bindFastify; bindMetrics
BindingRuns(config, step) ==
    CASE step = "bindContractReader" -> ~config.diagnosticMode
      [] step = "bindMessaging" -> ~config.cleanUpMode
      [] step = "bindPrices" -> config.priceCacheMode
      [] OTHER -> TRUE

\* the first binding from position i on that the configuration runs; the
\* router is ready after the last one
RECURSIVE NextBinding(_, _)
NextBinding(config, i) ==
    IF i > Len(BindSteps) THEN "ready"
    ELSE IF BindingRuns(config, BindSteps[i]) THEN BindSteps[i]
    ELSE NextBinding(config, i + 1)

BindIndex(step) ==
    CHOOSE i \in 1..Len(BindSteps) : BindSteps[i] = step

\* const context: Context = {} as any; makeRouter has called getChainData
StartupBegin ==
    [pc |-> "getChainData",
     loaded |-> [mnemonic |-> "candy maple cake", diagnosticMode |-> FALSE,
                 cleanUpMode |-> FALSE, priceCacheMode |-> FALSE],
     config |-> [mnemonic |-> "candy maple cake", diagnosticMode |-> FALSE,
                 cleanUpMode |-> FALSE, priceCacheMode |-> FALSE],
     context |-> {}, wallet |-> "undefined", connected |-> FALSE, bound |-> <<>>,
     got |-> NoContextCall,
     failedAt |-> "none", error |-> "none", exitCode |-> NoExitCode]

\* catch (e) { console.error(...); process.exit(); }
StartupCatch(state, e) ==
    [state EXCEPT !.pc = "exited", !.failedAt = state.pc, !.error = e,
                  !.exitCode = processExit(NoExitCode)]

\* const chainData = await getChainData(); if (!chainData) throw new Error(...);
\* context.chainData = chainData
StartupGetChainData(found) ==
    /\ startup.pc = "getChainData"
    /\ startup' = IF found
                  THEN [startup EXCEPT !.pc = "getConfig", !.context = {"chainData"}]
                  ELSE StartupCatch(startup, "Error")
    /\ UNCHANGED <<now, cancelVars, auctionVars, oracle, gasFeeCall, chainReader>>

\* context.config = await getConfig(); then the wallet, the logger, the log
\* of the configuration and the messaging service, up to messaging.connect()
StartupGetConfig(outcome, config) ==
    /\ startup.pc = "getConfig"
    /\ outcome \in {"ok", "ConfigurationError"}
    /\ startup' = IF outcome = "ok"
                  THEN [startup EXCEPT
                          !.pc = "connect",
                          !.loaded = config,
                          !.wallet = IF config.mnemonic # "undefined" THEN "Wallet"
                                     ELSE "Web3Signer",
                          !.config = ConfigAfterLog(config),
                          !.context = @ \cup {"config", "wallet", "logger", "messaging"}]
                  ELSE StartupCatch(startup, outcome)
    /\ UNCHANGED <<now, cancelVars, auctionVars, oracle, gasFeeCall, chainReader>>

\* await context.messaging.connect(), which signs with the wallet; then the
\* TransactionService, whose constructor sets up the providers, the adapters
\* and the first binding
StartupConnect(outcome) ==
    /\ startup.pc = "connect"
    /\ outcome \in {"ok", "SignerUnreachable", "ConfigurationError"}
    /\ outcome = "SignerUnreachable" => startup.wallet = "Web3Signer"
    /\ startup' =
         CASE outcome = "ok" ->
                [startup EXCEPT
                   !.connected = TRUE,
                   !.context = @ \cup {"txService", "contractReader", "contractWriter"},
                   !.pc = NextBinding(startup.config, 1)]
           [] outcome = "ConfigurationError" ->
                StartupCatch([startup EXCEPT !.connected = TRUE], outcome)
           [] OTHER -> StartupCatch(startup, outcome)
    /\ UNCHANGED <<now, cancelVars, auctionVars, oracle, gasFeeCall, chainReader>>

\* await of a binding; then the next binding, or "Router ready"
StartupBind(bound) ==
    /\ \E i \in 1..Len(BindSteps) : startup.pc = BindSteps[i]
    /\ startup' = IF bound
                  THEN [startup EXCEPT
                          !.bound = Append(@, startup.pc),
                          !.pc = NextBinding(startup.config, BindIndex(startup.pc) + 1)]
                  ELSE StartupCatch(startup, "Error")
    /\ UNCHANGED <<now, cancelVars, auctionVars, oracle, gasFeeCall, chainReader>>

\* a getContext call of another task, made while makeRouter is at an await
\* or after it has returned
StartupGetContext ==
    /\ startup.pc # "exited"
    /\ startup' = [startup EXCEPT !.got = getContext(startup.context)]
    /\ UNCHANGED <<now, cancelVars, auctionVars, oracle, gasFeeCall, chainReader>>

\* the router has started
StartupAtRest ==
    startup = [StartupBegin EXCEPT
                 !.pc = "ready", !.config = ConfigAfterLog(StartupBegin.loaded),
                 !.wallet = "Wallet", !.connected = TRUE,
                 !.context = ContextFields \cup {"chainData"},
                 !.bound = <<"bindContractReader", "bindMessaging", "bindFastify",
                             "bindMetrics">>]

(***************************************************************************)
(* newAuction                                                              *)
(***************************************************************************)

\* helpers/auction.ts: minimum distance between now and the payload's expiry
AUCTION_EXPIRY_BUFFER == 300

\* config.requestLimit, in milliseconds
requestLimit == 5000

\* number of newAuction calls of one behaviour
MaxAuctionCalls == 2
\* number of changes of sync records, liquidity and balances of one behaviour
MaxEnvChanges == 1
\* the liquidity model returns an amount in 0..MaxAmountReceived
MaxAmountReceived == 3
\* values of the router's liquidity on a chain
Liquidities == {0, 2}
\* const LOW_GAS = parseEther("0.1"); native balances are in units of 0.05 ether
LOW_GAS == 2
\* values of the router's native balance on a chain: below minGas, between
\* minGas and LOW_GAS, and LOW_GAS
NativeBalances == {0, 1, 2}

\* config.chainConfig: the number of providers and minGas of each chain
chainConfig ==
    [c \in Chains |->
        [providers |-> IF c \in ConfiguredChains THEN 1 ELSE 0, minGas |-> 1]]

AuctionTimes == {1000, 1001, 1005}
AuctionExpiries == {1301, 2000}
Amounts == {"0", "1000000", "2000000", "1.5"}
Users == {"0xUser", "0xOther"}
Assets == {"0xPooled", "0xUnpooled"}
SyncLists == {<<>>, <<FALSE>>, <<FALSE, TRUE>>}

CallIds == {1, 2}

\* the AuctionPayload fields newAuction reads; valid: the payload matches
\* AuctionPayloadSchema
Payloads ==
    [valid : BOOLEAN, user : Users, sendingAssetId : {"0xPooled"},
     sendingChainId : {sendingChainId, unconfiguredChainId},
     receivingAssetId : Assets, receivingChainId : {receivingChainId},
     amount : Amounts, expiry : AuctionExpiries, dryRun : BOOLEAN]

\* the payloads of the model: for the pair of assets of the swap pool, every
\* payload that passes the schema and those that fail it or the zero-value
\* check; for the other chains and assets, one payload that passes both
Requests ==
    {d \in Payloads :
        /\ d.user = "0xUser"
        /\ d.amount # "2000000"
        /\ \/ /\ d.valid /\ d.amount = "1000000"
              /\ \/ d.sendingChainId = sendingChainId /\ d.receivingAssetId = "0xPooled"
                 \/ ~d.dryRun /\ d.expiry = 2000
           \/ /\ d.sendingChainId = sendingChainId
              /\ d.receivingAssetId = "0xPooled"
              /\ ~d.dryRun
              /\ ~d.valid => d.expiry = 2000}

\* the key leaves the user out
RequestKey_NoUser(data) ==
    <<data.sendingAssetId, data.sendingChainId, data.receivingAssetId,
      data.receivingChainId>>

\* `${user}-${sendingAssetId}-${sendingChainId}-${receivingAssetId}-${receivingChainId}`
RequestKey(data) ==
    <<data.user, data.sendingAssetId, data.sendingChainId, data.receivingAssetId,
      data.receivingChainId>>

Keys == {RequestKey(d) : d \in Payloads}

NoError == [kind |-> "none", chainId |-> 0, records |-> <<>>, balance |-> -1,
            amountReceived |-> -1, elapsed |-> 0, lastAttemptTime |-> 0,
            minimalPeriod |-> 0]
NoBid == [amountReceived |-> -1, expiry |-> 0]
NoResponse == [bid |-> NoBid, bidSignature |-> "undefined", gasFeeInReceivingToken |-> -1]

IdleAuction ==
    [pc |-> "idle", data |-> CHOOSE d \in Requests : TRUE, currentTime |-> 0,
     rateLimit |-> "unchecked", previousRequestAt |-> 0, lastBidSeen |-> 0,
     receivingSyncRecords |-> <<>>, sendingSyncRecords |-> <<>>,
     senderLiquidity |-> -1, receiverLiquidity |-> -1,
     quote |-> -1, gasFeeInReceivingToken |-> -1, amountReceived |-> -1,
     senderBalance |-> -1, receiverBalance |-> -1, lowGasWarned |-> FALSE,
     bidSignature |-> "undefined",
     at |-> "idle", error |-> NoError, response |-> NoResponse]

\* the call rejects with err; at keeps the step that threw
Throw(call, err) == [call EXCEPT !.pc = "done", !.at = call.pc, !.error = err]

ErrorOf(kind) == [NoError EXCEPT !.kind = kind]

\* BigNumber.from(amount): the value, or -1 when it throws
BigNumberFrom(amount) ==
    CASE amount = "0" -> 0
      [] amount = "1000000" -> 1000000
      [] amount = "2000000" -> 2000000
      [] OTHER -> -1

\* try { if (BigNumber.from(amount).isZero()) throw } catch { throw new ZeroValueBid }
IsZeroValueBid(amount) ==
    BigNumberFrom(amount) = -1 \/ BigNumberFrom(amount) = 0

\* the comparison admits a request only after more than requestLimit
AuctionRateIsExceeded_Inclusive(lastAttemptTime, currentTime) ==
    /\ lastAttemptTime # 0
    /\ lastAttemptTime + requestLimit >= currentTime * 1000

\* lastAttemptTime && lastAttemptTime + config.requestLimit > currentTime * 1000
AuctionRateIsExceeded(lastAttemptTime, currentTime) ==
    /\ lastAttemptTime # 0
    /\ lastAttemptTime + requestLimit > currentTime * 1000

\* new AuctionRateExceeded(currentTime - lastAttemptTime, ...): currentTime is
\* in seconds, lastAttemptTime in milliseconds
ElapsedSinceLastAttempt(currentTime, lastAttemptTime) ==
    currentTime - lastAttemptTime

\* the comparison lets an expiry equal to the bound through
AuctionIsExpired_Strict(expiry, currentTime) ==
    expiry < currentTime + AUCTION_EXPIRY_BUFFER

\* expiry <= currentTime + AUCTION_EXPIRY_BUFFER
AuctionIsExpired(expiry, currentTime) ==
    expiry <= currentTime + AUCTION_EXPIRY_BUFFER

\* !config?.providers || config.providers.length === 0
ProvidersMissing(chainId) ==
    chainConfig[chainId].providers = 0

\* records.every in place of records.some
SomeSynced_Every(records) ==
    \A i \in 1..Len(records) : records[i]

\* records.some((record) => record.synced)
SomeSynced(records) ==
    \E i \in 1..Len(records) : records[i]

\* getSwapIdxList: the swap pool holding both assets, when there is one
HasSwapPool(data) ==
    data.sendingAssetId = "0xPooled" /\ data.receivingAssetId = "0xPooled"

\* getDecimalsForAsset of a chain without provider fails unless the chain
\* data lists the asset
DecimalsReadCanFail(chainId) ==
    chainConfig[chainId].providers = 0

\* amountReceivedInBigNum.lt(gasFeeInReceivingToken)
AmountBelowGasFee(amountReceived, gasFeeInReceivingToken) ==
    amountReceived < gasFeeInReceivingToken

\* the operands of the comparison are swapped
LiquidityBelowAmount_Swapped(receiverLiquidity, amountReceived) ==
    amountReceived < receiverLiquidity

\* receiverLiquidity.lt(amountReceived)
LiquidityBelowAmount(receiverLiquidity, amountReceived) ==
    receiverLiquidity < amountReceived

\* senderBalance.lt(LOW_GAS) || receiverBalance.lt(LOW_GAS)
GasIsLow(senderBalance, receiverBalance) ==
    senderBalance < LOW_GAS \/ receiverBalance < LOW_GAS

\* the request is rejected below the warning threshold
GasBelowMin_LowGas(data, senderBalance, receiverBalance) ==
    GasIsLow(senderBalance, receiverBalance)

\* senderBalance.lt(sendingConfig.minGas) || receiverBalance.lt(receivingConfig.minGas)
GasBelowMin(data, senderBalance, receiverBalance) ==
    \/ senderBalance < chainConfig[data.sendingChainId].minGas
    \/ receiverBalance < chainConfig[data.receivingChainId].minGas

\* the signature is returned for a dry run too
ResponseSignature_Always(dryRun, bidSignature) ==
    bidSignature

\* bidSignature: dryRun ? undefined : bidSignature
ResponseSignature(dryRun, bidSignature) ==
    IF dryRun THEN "undefined" ELSE bidSignature

\* the value written to AUCTION_REQUEST_MAP: currentTime * 1000
LastAttemptStamp(currentTime) ==
    currentTime * 1000

\* the label sets of the receivedAuction counter
ReceivedAuctionLabels ==
    [sendingAssetId : {"0xPooled"}, receivingAssetId : Assets,
     sendingChainId : Chains, receivingChainId : Chains]

\* receivedAuction.inc({ sendingAssetId, receivingAssetId,
\*   sendingChainId: data.receivingChainId, receivingChainId: data.receivingChainId })
LabelsOf(data) ==
    [sendingAssetId |-> data.sendingAssetId,
     receivingAssetId |-> data.receivingAssetId,
     sendingChainId |-> data.receivingChainId,
     receivingChainId |-> data.receivingChainId]

\* receivedAuction.inc, then the schema check and the zero-value check, up to
\* the first await
AuctionStart(p, data) ==
    /\ auctionCall[p].pc = "idle"
    /\ auctionCount < MaxAuctionCalls
    /\ auctionCount' = auctionCount + 1
    /\ receivedAuction' = [receivedAuction EXCEPT ![LabelsOf(data)] = @ + 1]
    /\ auctionCall' = [auctionCall EXCEPT ![p] =
         IF ~data.valid
         THEN Throw([IdleAuction EXCEPT !.data = data], ErrorOf("ParamsInvalid"))
         ELSE IF IsZeroValueBid(data.amount)
         THEN Throw([IdleAuction EXCEPT !.data = data], ErrorOf("ZeroValueBid"))
         ELSE [IdleAuction EXCEPT !.data = data, !.pc = "getNtpTimeSeconds"]]
    /\ UNCHANGED <<cancelVars, now, AUCTION_REQUEST_MAP, syncRecords, assetBalance,
                   nativeBalance, envChanges, previousRequest, lastBidAt, feeVars>>

\* const currentTime = await getNtpTimeSeconds()
AuctionGetNtpTime(p) ==
    /\ auctionCall[p].pc = "getNtpTimeSeconds"
    /\ auctionCall' = [auctionCall EXCEPT
         ![p].currentTime = now,
         ![p].previousRequestAt =
             IF previousRequest.key = RequestKey(auctionCall[p].data)
             THEN previousRequest.at ELSE 0,
         ![p].pc = "getAddress"]
    /\ previousRequest' = [key |-> RequestKey(auctionCall[p].data), at |-> now * 1000]
    /\ UNCHANGED <<cancelVars, now, AUCTION_REQUEST_MAP, syncRecords, assetBalance,
                   nativeBalance, envChanges, auctionCount, receivedAuction, lastBidAt, feeVars>>

\* const routerAddress = await wallet.getAddress(); then the rate limit and the
\* expiry checks
AuctionGetAddress(p) ==
    LET call == auctionCall[p]
        lastAttemptTime == AUCTION_REQUEST_MAP[RequestKey(call.data)]
        seen == [call EXCEPT !.lastBidSeen = lastBidAt[RequestKey(call.data)]]
    IN
    /\ call.pc = "getAddress"
    /\ auctionCall' = [auctionCall EXCEPT ![p] =
         IF AuctionRateIsExceeded(lastAttemptTime, call.currentTime)
         THEN Throw([seen EXCEPT !.rateLimit = "exceeded"],
                    [ErrorOf("AuctionRateExceeded") EXCEPT
                       !.elapsed = ElapsedSinceLastAttempt(call.currentTime, lastAttemptTime),
                       !.lastAttemptTime = lastAttemptTime,
                       !.minimalPeriod = requestLimit])
         ELSE IF AuctionIsExpired(call.data.expiry, call.currentTime)
         THEN Throw([seen EXCEPT !.rateLimit = "admitted"], ErrorOf("AuctionExpired"))
         ELSE [seen EXCEPT !.rateLimit = "admitted", !.pc = "getDecimalsForAsset"]]
    /\ UNCHANGED <<cancelVars, now, AUCTION_REQUEST_MAP, syncRecords, assetBalance,
                   nativeBalance, envChanges, auctionCount, receivedAuction, previousRequest, lastBidAt, feeVars>>

\* the two getDecimalsForAsset reads, then the providers check
AuctionGetDecimals(p) ==
    LET call == auctionCall[p] IN
    /\ call.pc = "getDecimalsForAsset"
    /\ \E readFails \in BOOLEAN :
         /\ readFails =>
              \/ DecimalsReadCanFail(call.data.sendingChainId)
              \/ DecimalsReadCanFail(call.data.receivingChainId)
         /\ auctionCall' = [auctionCall EXCEPT ![p] =
              IF readFails
              THEN Throw(call, ErrorOf("ProviderNotConfigured"))
              ELSE IF \/ ProvidersMissing(call.data.sendingChainId)
                      \/ ProvidersMissing(call.data.receivingChainId)
              THEN Throw(call, ErrorOf("ProvidersNotAvailable"))
              ELSE [call EXCEPT !.pc = "getSyncRecordsReceiving"]]
    /\ UNCHANGED <<cancelVars, now, AUCTION_REQUEST_MAP, syncRecords, assetBalance,
                   nativeBalance, envChanges, auctionCount, receivedAuction, previousRequest, lastBidAt, feeVars>>

\* const receivingSyncRecords = await contractReader.getSyncRecords(receivingChainId)
AuctionGetSyncRecordsReceiving(p) ==
    LET call == auctionCall[p]
        records == syncRecords[call.data.receivingChainId]
        read == [call EXCEPT !.receivingSyncRecords = records]
    IN
    /\ call.pc = "getSyncRecordsReceiving"
    /\ auctionCall' = [auctionCall EXCEPT ![p] =
         IF ~SomeSynced(records)
         THEN Throw(read, [ErrorOf("SubgraphNotSynced") EXCEPT
                             !.chainId = call.data.receivingChainId,
                             !.records = records])
         ELSE [read EXCEPT !.pc = "getSyncRecordsSending"]]
    /\ UNCHANGED <<cancelVars, now, AUCTION_REQUEST_MAP, syncRecords, assetBalance,
                   nativeBalance, envChanges, auctionCount, receivedAuction, previousRequest, lastBidAt, feeVars>>

\* const sendingSyncRecords = await contractReader.getSyncRecords(sendingChainId);
\* then getSwapIdxList
AuctionGetSyncRecordsSending(p) ==
    LET call == auctionCall[p]
        records == syncRecords[call.data.sendingChainId]
        read == [call EXCEPT !.sendingSyncRecords = records]
    IN
    /\ call.pc = "getSyncRecordsSending"
    /\ auctionCall' = [auctionCall EXCEPT ![p] =
         IF ~SomeSynced(records)
         THEN Throw(read, [ErrorOf("SubgraphNotSynced") EXCEPT
                             !.chainId = call.data.sendingChainId,
                             !.records = records])
         ELSE IF ~HasSwapPool(call.data)
         THEN Throw(read, ErrorOf("ParamsInvalid"))
         ELSE [read EXCEPT !.pc = "getAssetBalance"]]
    /\ UNCHANGED <<cancelVars, now, AUCTION_REQUEST_MAP, syncRecords, assetBalance,
                   nativeBalance, envChanges, auctionCount, receivedAuction, previousRequest, lastBidAt, feeVars>>

\* const [senderLiquidity, receiverLiquidity] = await Promise.all([getAssetBalance ...])
AuctionGetAssetBalance(p) ==
    LET call == auctionCall[p] IN
    /\ call.pc = "getAssetBalance"
    /\ auctionCall' = [auctionCall EXCEPT ![p] =
         [call EXCEPT !.senderLiquidity = assetBalance[call.data.sendingChainId],
                      !.receiverLiquidity = assetBalance[call.data.receivingChainId],
                      !.pc = "getReceiverAmount"]]
    /\ UNCHANGED <<cancelVars, now, AUCTION_REQUEST_MAP, syncRecords, assetBalance,
                   nativeBalance, envChanges, auctionCount, receivedAuction, previousRequest, lastBidAt, feeVars>>

\* the fee is taken off twice
AmountAfterFee_Twice(amountReceived, gasFeeInReceivingToken) ==
    amountReceived - 2 * gasFeeInReceivingToken

\* amountReceived = amountReceivedInBigNum.sub(gasFeeInReceivingToken).toString()
AmountAfterFee(amountReceived, gasFeeInReceivingToken) ==
    amountReceived - gasFeeInReceivingToken

\* getReceiverAmount and calculateGasFeeInReceivingToken, then the
\* NotEnoughAmount check, the subtraction of the fee and the NotEnoughLiquidity check
AuctionQuote(p) ==
    LET call == auctionCall[p] IN
    /\ call.pc = "getReceiverAmount"
    /\ \E quote \in 0..MaxAmountReceived :
         LET fee == calculateGasFeeInReceivingToken(call.data.sendingChainId,
                        call.data.receivingChainId, assetDecimals, oracle)
             got == [call EXCEPT !.quote = quote, !.gasFeeInReceivingToken = fee]
             reduced == [got EXCEPT !.amountReceived = AmountAfterFee(quote, fee)]
         IN
         auctionCall' = [auctionCall EXCEPT ![p] =
           IF AmountBelowGasFee(quote, fee)
           THEN Throw(got, ErrorOf("NotEnoughAmount"))
           ELSE IF LiquidityBelowAmount(call.receiverLiquidity, reduced.amountReceived)
           THEN Throw(reduced, [ErrorOf("NotEnoughLiquidity") EXCEPT
                                  !.chainId = call.data.receivingChainId,
                                  !.balance = call.receiverLiquidity,
                                  !.amountReceived = reduced.amountReceived])
           ELSE [reduced EXCEPT !.pc = "getBalance"]]
    /\ UNCHANGED <<cancelVars, now, AUCTION_REQUEST_MAP, syncRecords, assetBalance,
                   nativeBalance, envChanges, auctionCount, receivedAuction, previousRequest, lastBidAt, feeVars>>

\* const [senderBalance, receiverBalance] = await Promise.all([txService.getBalance ...]);
\* then the low gas warning, the NotEnoughGas check and the bid object
AuctionGetBalance(p) ==
    LET call == auctionCall[p]
        read == [call EXCEPT !.senderBalance = nativeBalance[call.data.sendingChainId],
                             !.receiverBalance = nativeBalance[call.data.receivingChainId],
                             !.lowGasWarned =
                                 GasIsLow(nativeBalance[call.data.sendingChainId],
                                          nativeBalance[call.data.receivingChainId])]
    IN
    /\ call.pc = "getBalance"
    /\ auctionCall' = [auctionCall EXCEPT ![p] =
         IF GasBelowMin(call.data, read.senderBalance, read.receiverBalance)
         THEN Throw(read, ErrorOf("NotEnoughGas"))
         ELSE [read EXCEPT !.pc = "signAuctionBid"]]
    /\ UNCHANGED <<cancelVars, now, AUCTION_REQUEST_MAP, syncRecords, assetBalance,
                   nativeBalance, envChanges, auctionCount, receivedAuction, previousRequest, lastBidAt, feeVars>>

\* the entry is written although the wallet failed to sign
RequestMapAfterSign_Unsigned(map, data, currentTime, signed) ==
    [map EXCEPT ![RequestKey(data)] = LastAttemptStamp(currentTime)]

\* a dry run leaves no entry
RequestMapAfterSign_NotForDryRun(map, data, currentTime, signed) ==
    IF signed /\ ~data.dryRun
    THEN [map EXCEPT ![RequestKey(data)] = LastAttemptStamp(currentTime)]
    ELSE map

\* const bidSignature = await signAuctionBid(bid, wallet);
\* AUCTION_REQUEST_MAP.set(key, currentTime * 1000): the map after the await,
\* which throws when the wallet fails to sign
RequestMapAfterSign(map, data, currentTime, signed) ==
    IF signed
    THEN [map EXCEPT ![RequestKey(data)] = LastAttemptStamp(currentTime)]
    ELSE map

\* const bidSignature = await signAuctionBid(bid, wallet); AUCTION_REQUEST_MAP.set;
\* return { bid, bidSignature: dryRun ? undefined : bidSignature, gasFeeInReceivingToken }
AuctionSign(p) ==
    LET call == auctionCall[p] IN
    /\ call.pc = "signAuctionBid"
    /\ \E signed \in BOOLEAN :
         /\ AUCTION_REQUEST_MAP' =
               RequestMapAfterSign(AUCTION_REQUEST_MAP, call.data, call.currentTime, signed)
         /\ lastBidAt' = IF signed
                         THEN [lastBidAt EXCEPT
                                 ![RequestKey(call.data)] = call.currentTime * 1000]
                         ELSE lastBidAt
         /\ auctionCall' = [auctionCall EXCEPT ![p] =
              IF signed
              THEN [call EXCEPT !.pc = "done", !.at = "return",
                      !.bidSignature = "signed",
                      !.response =
                         [bid |-> [amountReceived |-> call.amountReceived,
                                   expiry |-> call.data.expiry],
                          bidSignature |-> ResponseSignature(call.data.dryRun, "signed"),
                          gasFeeInReceivingToken |-> call.gasFeeInReceivingToken]]
              ELSE Throw(call, ErrorOf("SignerError"))]
    /\ UNCHANGED <<cancelVars, now, syncRecords, assetBalance, nativeBalance, envChanges,
                   auctionCount, receivedAuction, previousRequest, feeVars>>

\* the promise of a finished call settles; its slot is free for the next call
AuctionReturn(p) ==
    /\ auctionCall[p].pc = "done"
    /\ auctionCall' = [auctionCall EXCEPT ![p] = IdleAuction]
    /\ UNCHANGED <<cancelVars, now, AUCTION_REQUEST_MAP, syncRecords, assetBalance,
                   nativeBalance, envChanges, auctionCount, receivedAuction, previousRequest, lastBidAt, feeVars>>

\* an indexer of a chain changes its sync status
SyncRecordsChange ==
    /\ envChanges < MaxEnvChanges
    /\ envChanges' = envChanges + 1
    /\ \E c \in ConfiguredChains, l \in SyncLists :
         /\ l # syncRecords[c]
         /\ syncRecords' = [syncRecords EXCEPT ![c] = l]
    /\ UNCHANGED <<cancelVars, now, AUCTION_REQUEST_MAP, assetBalance, nativeBalance,
                   auctionCall, auctionCount, receivedAuction, previousRequest, lastBidAt, feeVars>>

\* the router's liquidity on a chain changes
AssetBalanceChange ==
    /\ envChanges < MaxEnvChanges
    /\ envChanges' = envChanges + 1
    /\ \E c \in ConfiguredChains, b \in Liquidities :
         /\ b # assetBalance[c]
         /\ assetBalance' = [assetBalance EXCEPT ![c] = b]
    /\ UNCHANGED <<cancelVars, now, AUCTION_REQUEST_MAP, syncRecords, nativeBalance,
                   auctionCall, auctionCount, receivedAuction, previousRequest, lastBidAt, feeVars>>

\* the router's native balance on a chain changes
NativeBalanceChange ==
    /\ envChanges < MaxEnvChanges
    /\ envChanges' = envChanges + 1
    /\ \E c \in ConfiguredChains, b \in NativeBalances :
         /\ b # nativeBalance[c]
         /\ nativeBalance' = [nativeBalance EXCEPT ![c] = b]
    /\ UNCHANGED <<cancelVars, now, AUCTION_REQUEST_MAP, syncRecords, assetBalance,
                   auctionCall, auctionCount, receivedAuction, previousRequest, lastBidAt, feeVars>>

\* wall-clock time passes
AuctionTick ==
    /\ \E t \in AuctionTimes : t > now /\ now' = t
    /\ UNCHANGED <<cancelVars, auctionVars, feeVars>>

\* no cancel call has been made
CancelAtRest ==
    /\ recvRecord = NoRecord
    /\ preparedAt = 1000
    /\ isRouterContract = FALSE
    /\ relayerAsset = ""
    /\ cancelCall = [c \in CancelIds |-> IdleCancel]
    /\ cancelCount = 0
    /\ dispatched = <<>>

\* no newAuction call has been made: an empty rate-limiter map, every chain
\* synced, funded and with liquidity
AuctionAtRest ==
    /\ AUCTION_REQUEST_MAP = [k \in Keys |-> 0]
    /\ syncRecords = [c \in ConfiguredChains |-> <<FALSE, TRUE>>]
    /\ assetBalance = [c \in ConfiguredChains |-> 2]
    /\ nativeBalance = [c \in ConfiguredChains |-> 1]
    /\ envChanges = 0
    /\ auctionCall = [p \in CallIds |-> IdleAuction]
    /\ auctionCount = 0
    /\ previousRequest = [key |-> <<>>, at |-> 0]
    /\ lastBidAt = [k \in Keys |-> 0]
    /\ receivedAuction = [l \in ReceivedAuctionLabels |-> 0]

InitCancel ==
    /\ ChainReaderAtRest
    /\ StartupAtRest
    /\ now \in CancelTimes
    /\ oracle = FreeGas
    /\ gasFeeCall = NoGasFeeCall
    /\ recvRecord \in Records
    /\ preparedAt \in PreparedTimestamps
    /\ isRouterContract \in BOOLEAN
    /\ relayerAsset \in RelayerAssets
    /\ cancelCall = [c \in CancelIds |-> IdleCancel]
    /\ cancelCount = 0
    /\ dispatched = <<>>
    /\ AuctionAtRest

\* one cancel call at a time
NextCancel ==
    \/ \E side \in {"sender", "receiver"}, vd \in BOOLEAN, vi \in BOOLEAN, e \in Expiries :
         CancelStart(1, side, vd, vi, e)
    \/ CancelGetTransactionForChain(1)
    \/ CancelGetNtpTime(1)
    \/ CancelGetTransactionReceipt(1)
    \/ CancelGetBlock(1)
    \/ CancelCalculateGasFee(1)
    \/ CancelDispatch(1)
    \/ CancelReturn(1)
    \/ ReceiverChainStep
    \/ CancelTick

SpecCancel == InitCancel /\ [][NextCancel]_vars

\* a sender prepare whose buffer has run out, with no receiver record
InitCancelRace ==
    /\ ChainReaderAtRest
    /\ StartupAtRest
    /\ now \in {1780, 2500}
    /\ oracle = FreeGas
    /\ gasFeeCall = NoGasFeeCall
    /\ recvRecord = NoRecord
    /\ preparedAt \in PreparedTimestamps
    /\ isRouterContract \in BOOLEAN
    /\ relayerAsset \in RelayerAssets
    /\ cancelCall = [c \in CancelIds |-> IdleCancel]
    /\ cancelCount = 0
    /\ dispatched = <<>>
    /\ AuctionAtRest

\* cancel calls for one transaction that overlap: the turns of the calls
\* interleave at the awaits
NextCancelRace ==
    \/ \E c \in CancelIds :
         \/ \E side \in {"sender", "receiver"}, e \in Expiries :
              CancelStart(c, side, TRUE, TRUE, e)
         \/ CancelGetTransactionForChain(c)
         \/ CancelGetNtpTime(c)
         \/ CancelGetTransactionReceipt(c)
         \/ CancelGetBlock(c)
         \/ CancelCalculateGasFee(c)
         \/ CancelDispatch(c)
    \/ CancelTick

SpecCancelRace == InitCancelRace /\ [][NextCancelRace]_vars

\* cancel calls of both sides, for every configuration of the relayer fee
\* asset, with the sender prepare old enough and no receiver record
InitCancelFee ==
    /\ ChainReaderAtRest
    /\ StartupAtRest
    /\ now \in {1780, 2500}
    /\ oracle = FreeGas
    /\ gasFeeCall = NoGasFeeCall
    /\ recvRecord = NoRecord
    /\ preparedAt = 1000
    /\ isRouterContract \in BOOLEAN
    /\ relayerAsset \in RelayerAssetConfigs
    /\ cancelCall = [c \in CancelIds |-> IdleCancel]
    /\ cancelCount = 0
    /\ dispatched = <<>>
    /\ AuctionAtRest

NextCancelFee ==
    \/ \E side \in {"sender", "receiver"}, e \in Expiries : CancelStart(1, side, TRUE, TRUE, e)
    \/ CancelGetTransactionForChain(1)
    \/ CancelGetNtpTime(1)
    \/ CancelGetTransactionReceipt(1)
    \/ CancelGetBlock(1)
    \/ CancelCalculateGasFee(1)
    \/ CancelDispatch(1)
    \/ CancelReturn(1)

SpecCancelFee == InitCancelFee /\ [][NextCancelFee]_vars

InitAuction ==
    /\ ChainReaderAtRest
    /\ StartupAtRest
    /\ now \in AuctionTimes
    /\ oracle \in AuctionOracles
    /\ gasFeeCall = NoGasFeeCall
    /\ CancelAtRest
    /\ AuctionAtRest

\* one newAuction call at a time, in a changing environment
NextAuction ==
    \/ \E data \in Requests : AuctionStart(1, data)
    \/ AuctionGetNtpTime(1)
    \/ AuctionGetAddress(1)
    \/ AuctionGetDecimals(1)
    \/ AuctionGetSyncRecordsReceiving(1)
    \/ AuctionGetSyncRecordsSending(1)
    \/ AuctionGetAssetBalance(1)
    \/ AuctionQuote(1)
    \/ AuctionGetBalance(1)
    \/ AuctionSign(1)
    \/ AuctionReturn(1)
    \/ SyncRecordsChange
    \/ AssetBalanceChange
    \/ NativeBalanceChange
    \/ AuctionTick

SpecAuction == InitAuction /\ [][NextAuction]_vars

\* the payloads of two overlapping calls: they pass the schema and the
\* zero-value check and name the two configured chains
RaceRequests ==
    {d \in Requests :
        d.valid /\ d.amount = "1000000" /\ d.sendingChainId = sendingChainId}

\* newAuction calls that overlap: each step of a call is one turn of the
\* event loop, and the turns of the calls interleave at the awaits
NextAuctionRace ==
    \/ \E p \in CallIds :
         \/ \E data \in RaceRequests : AuctionStart(p, data)
         \/ AuctionGetNtpTime(p)
         \/ AuctionGetAddress(p)
         \/ AuctionGetDecimals(p)
         \/ AuctionGetSyncRecordsReceiving(p)
         \/ AuctionGetSyncRecordsSending(p)
         \/ AuctionGetAssetBalance(p)
         \/ AuctionQuote(p)
         \/ AuctionGetBalance(p)
         \/ AuctionSign(p)
    \/ AuctionTick

SpecAuctionRace == InitAuction /\ [][NextAuctionRace]_vars

\* the payloads of two users, for two amounts and every chain and asset:
\* they pass the schema, the zero-value check and the expiry check
KeyRequests ==
    {d \in Payloads :
        d.valid /\ d.amount \in {"1000000", "2000000"} /\ d.expiry = 2000 /\ ~d.dryRun}

\* two newAuction calls, the second made after the first has settled
NextAuctionKeys ==
    \/ \E data \in KeyRequests : AuctionStart(1, data)
    \/ \E data \in KeyRequests : auctionCall[1].pc = "done" /\ AuctionStart(2, data)
    \/ \E p \in CallIds :
         \/ AuctionGetNtpTime(p)
         \/ AuctionGetAddress(p)
         \/ AuctionGetDecimals(p)
         \/ AuctionGetSyncRecordsReceiving(p)
         \/ AuctionGetSyncRecordsSending(p)
         \/ AuctionGetAssetBalance(p)
         \/ AuctionQuote(p)
         \/ AuctionGetBalance(p)
         \/ AuctionSign(p)
    \/ AuctionTick

SpecAuctionKeys == InitAuction /\ [][NextAuctionKeys]_vars

\* one user's payloads for the pair of assets of the swap pool, as a dry run
\* and not: they pass the schema, the zero-value check and the expiry check
DryRunRequests ==
    {d \in Payloads :
        /\ d.valid /\ d.user = "0xUser" /\ d.amount = "1000000" /\ d.expiry = 2000
        /\ d.sendingChainId = sendingChainId /\ d.receivingAssetId = "0xPooled"}

\* two newAuction calls with the same key, the second made after the first
\* has settled
NextAuctionDryRun ==
    \/ \E data \in DryRunRequests : AuctionStart(1, data)
    \/ \E data \in DryRunRequests : auctionCall[1].pc = "done" /\ AuctionStart(2, data)
    \/ \E p \in CallIds :
         \/ AuctionGetNtpTime(p)
         \/ AuctionGetAddress(p)
         \/ AuctionGetDecimals(p)
         \/ AuctionGetSyncRecordsReceiving(p)
         \/ AuctionGetSyncRecordsSending(p)
         \/ AuctionGetAssetBalance(p)
         \/ AuctionQuote(p)
         \/ AuctionGetBalance(p)
         \/ AuctionSign(p)
    \/ AuctionTick

SpecAuctionDryRun == InitAuction /\ [][NextAuctionDryRun]_vars

\* calls of calculateGasFee for every reading of the gas price and the prices
InitGasFee ==
    /\ ChainReaderAtRest
    /\ StartupAtRest
    /\ now \in AuctionTimes
    /\ CancelAtRest
    /\ AuctionAtRest
    /\ oracle \in {[c \in Chains |-> r] : r \in Readings}
    /\ gasFeeCall \in GasFeeCalls

NextGasFee ==
    CalculateGasFee

SpecGasFee == InitGasFee /\ [][NextGasFee]_vars

\* a ChainReader constructed for every configuration of the chains, then
\* calls of its operations for every chain, one at a time
InitChainReader ==
    /\ now = 1000
    /\ oracle = FreeGas
    /\ gasFeeCall = NoGasFeeCall
    /\ CancelAtRest
    /\ AuctionAtRest
    /\ StartupAtRest
    /\ chainReader \in [config : ReaderConfigs, status : {"new"}, providers : {{}},
                        call : {IdleRead}, count : {0}]

NextChainReader ==
    \/ ChainReaderConstruct
    \/ \E op \in ReadOps \cup PriceOps, c \in Chains : ChainReaderCall(op, c)
    \/ \E reply \in ProviderReplies : ChainReaderProviderReply(reply)
    \/ ChainReaderReturn

SpecChainReader == InitChainReader /\ [][NextChainReader]_vars

\* the router process from its start to "Router ready" or to its exit
InitStartup ==
    /\ now = 1000
    /\ oracle = FreeGas
    /\ gasFeeCall = NoGasFeeCall
    /\ CancelAtRest
    /\ AuctionAtRest
    /\ ChainReaderAtRest
    /\ startup = StartupBegin

NextStartup ==
    \/ \E found \in BOOLEAN : StartupGetChainData(found)
    \/ \E outcome \in {"ok", "ConfigurationError"}, config \in StartupConfigs :
         StartupGetConfig(outcome, config)
    \/ \E outcome \in {"ok", "SignerUnreachable", "ConfigurationError"} :
         StartupConnect(outcome)
    \/ \E bound \in BOOLEAN : StartupBind(bound)
    \/ StartupGetContext

SpecStartup == InitStartup /\ [][NextStartup]_vars

\* a sender-side cancel call that has passed its checks: it is about to call
\* contractWriter.cancel, or has called it
SenderCancelReached(c) ==
    /\ cancelCall[c].side = "sender"
    /\ \/ cancelCall[c].pc = "contractWriter"
       \/ cancelCall[c].pc = "done" /\ cancelCall[c].error = "none"

\* C1: a sender-side cancel never reaches contractWriter.cancel when the
\* receiver record it read exists, is not Cancelled and has an expiry later
\* than the time it sampled, nor when the time it sampled is less than the
\* timestamp of the sender prepared block + 780 s.
C1_SenderCancelNotDispatchedWhenBlocked ==
    \A c \in CancelIds :
        SenderCancelReached(c) =>
            /\ ~(/\ cancelCall[c].existing.status \in {"Prepared", "Fulfilled"}
                 /\ cancelCall[c].currentTime < cancelCall[c].existing.expiry)
            /\ ~(/\ cancelCall[c].preparedBlock # NoBlock
                 /\ cancelCall[c].currentTime < cancelCall[c].preparedBlock + 780)

\* a sender cancel dispatched at the two boundaries: the receiver record is
\* Fulfilled with its expiry equal to the sampled time, and the prepared block
\* is exactly 780 s old
C1_Witness ==
    \E c \in CancelIds :
        /\ SenderCancelReached(c)
        /\ cancelCall[c].pc = "done"
        /\ Len(dispatched) > 0
        /\ cancelCall[c].existing.status = "Fulfilled"
        /\ cancelCall[c].currentTime = cancelCall[c].existing.expiry
        /\ cancelCall[c].currentTime = cancelCall[c].preparedBlock + 780

\* the receiver record a sender cancel read allows the dispatch, as C2 states
\* it: absent with the transaction's expiry passed, or Cancelled
C2_OriginalAllows(c) ==
    \/ /\ cancelCall[c].existing = NoRecord
       /\ cancelCall[c].currentTime >= cancelCall[c].expiry
    \/ cancelCall[c].existing.status = "Cancelled"

\* C2 as stated: a sender cancel is dispatched only if the receiver record is
\* absent with the transaction's expiry passed, or Cancelled, and the prepared
\* block is at least 780 s old.
C2_Original ==
    \A c \in CancelIds :
        SenderCancelReached(c) =>
            /\ C2_OriginalAllows(c)
            /\ cancelCall[c].preparedBlock # NoBlock
            /\ cancelCall[c].currentTime >= cancelCall[c].preparedBlock + 780

\* C2 amended: every step that dispatches a sender cancel is taken by a call
\* whose receiver record is absent, or Cancelled, or has an expiry that is
\* not later than the sampled time, and whose prepared block is at least
\* 780 s old.
C2_SenderCancelOnlyIf ==
    [][\A c \in CancelIds :
         (/\ cancelCall[c].side = "sender"
          /\ cancelCall[c].pc = "contractWriter"
          /\ dispatched' # dispatched) =>
             /\ \/ cancelCall[c].existing = NoRecord
                \/ cancelCall[c].existing.status = "Cancelled"
                \/ cancelCall[c].currentTime >= cancelCall[c].existing.expiry
             /\ cancelCall[c].preparedBlock # NoBlock
             /\ cancelCall[c].currentTime - cancelCall[c].preparedBlock >= 780]_vars

\* a sender cancel dispatched for an absent receiver record before the
\* transaction's expiry
C2_Witness ==
    \E c \in CancelIds :
        /\ SenderCancelReached(c)
        /\ cancelCall[c].pc = "done"
        /\ Len(dispatched) > 0
        /\ dispatched[Len(dispatched)].side = "sender"
        /\ cancelCall[c].existing = NoRecord
        /\ cancelCall[c].currentTime < cancelCall[c].expiry

\* C12: the step of a sender cancel that reads the prepared block ends the
\* call with SenderTxTooNew, dispatching nothing, when the sampled time is
\* less than 780 s after the block's timestamp, and passes the call on to
\* contractWriter.cancel when it is 780 s or more after it; a call that has
\* failed with SenderTxTooNew dispatches nothing afterwards.
C12_SenderTxTooNewBelow780 ==
    [][\A c \in CancelIds :
         /\ (/\ cancelCall[c].pc = "getBlock"
             /\ cancelCall'[c].pc # "getBlock"
             /\ cancelCall'[c].preparedBlock # NoBlock) =>
                IF cancelCall[c].currentTime - cancelCall'[c].preparedBlock < 780
                THEN /\ cancelCall'[c].pc = "done"
                     /\ cancelCall'[c].error = "SenderTxTooNew"
                     /\ dispatched' = dispatched
                ELSE /\ cancelCall'[c].pc = "contractWriter"
                     /\ cancelCall'[c].error = "none"
         /\ cancelCall[c].error = "SenderTxTooNew" => dispatched' = dispatched]_vars

\* a sender cancel requested 600 s after the prepare has failed with
\* SenderTxTooNew and nothing was dispatched
C12_Witness ==
    \E c \in CancelIds :
        /\ cancelCall[c].side = "sender"
        /\ cancelCall[c].error = "SenderTxTooNew"
        /\ cancelCall[c].preparedBlock # NoBlock
        /\ cancelCall[c].currentTime - cancelCall[c].preparedBlock = 600
        /\ dispatched = <<>>

\* the call has called contractWriter.cancel
CancelDispatched(c) ==
    cancelCall[c].pc = "done" /\ cancelCall[c].error = "none"

\* C13: of two cancel calls for the same transaction and side, the second
\* entered while the first was between its state read and the end of its
\* dispatch, at most one calls contractWriter.cancel.
C13_SingleFlightCancel ==
    \A c, d \in CancelIds :
        (/\ c # d
         /\ cancelCall[c].side = cancelCall[d].side
         /\ cancelCall[d].enteredWhileInFlight
         /\ CancelDispatched(c))
            => ~CancelDispatched(d)

(***************************************************************************)
(* Properties of newAuction                                                *)
(***************************************************************************)

\* the call has returned a response with a bid
BidReturned(p) ==
    auctionCall[p].pc = "done" /\ auctionCall[p].error.kind = "none"

\* the call has thrown an error of this kind
Failed(p, kind) ==
    auctionCall[p].pc = "done" /\ auctionCall[p].error.kind = kind

\* the position of a step in the handler
StepRank(pc) ==
    CASE pc = "idle" -> 0
      [] pc = "getNtpTimeSeconds" -> 1
      [] pc = "getAddress" -> 2
      [] pc = "getDecimalsForAsset" -> 3
      [] pc = "getSyncRecordsReceiving" -> 4
      [] pc = "getSyncRecordsSending" -> 5
      [] pc = "getAssetBalance" -> 6
      [] pc = "getReceiverAmount" -> 7
      [] pc = "getBalance" -> 8
      [] pc = "signAuctionBid" -> 9
      [] pc = "return" -> 10

\* the call has completed the step named by pc
HasCompleted(p, pc) ==
    IF auctionCall[p].pc = "done"
    THEN StepRank(auctionCall[p].at) >= StepRank(pc)
    ELSE StepRank(auctionCall[p].pc) > StepRank(pc)

\* C3: every bid returned by newAuction has amountReceived, after the gas fee
\* is subtracted, strictly greater than 0.
C3_BidAmountPositive ==
    \A p \in CallIds :
        BidReturned(p) => auctionCall[p].response.bid.amountReceived > 0

\* C4: every bid returned has amountReceived at most the receiver liquidity
\* read by that call; a call whose fee-reduced amountReceived exceeds the
\* liquidity it read fails with NotEnoughLiquidity, which carries that
\* balance and the fee-reduced amountReceived.
C4_BidWithinReceiverLiquidity ==
    \A p \in CallIds :
        LET call == auctionCall[p] IN
        /\ BidReturned(p) =>
              call.response.bid.amountReceived <= call.receiverLiquidity
        /\ (/\ HasCompleted(p, "getReceiverAmount")
            /\ call.quote >= call.gasFeeInReceivingToken
            /\ call.quote - call.gasFeeInReceivingToken > call.receiverLiquidity)
              => Failed(p, "NotEnoughLiquidity")
        /\ Failed(p, "NotEnoughLiquidity") =>
              /\ call.error.balance = call.receiverLiquidity
              /\ call.error.amountReceived = call.quote - call.gasFeeInReceivingToken
              /\ call.error.amountReceived > call.error.balance

\* a call that fails with NotEnoughLiquidity after a nonzero fee was subtracted
C4_Witness ==
    \E p \in CallIds :
        /\ Failed(p, "NotEnoughLiquidity")
        /\ auctionCall[p].gasFeeInReceivingToken > 0
        /\ auctionCall[p].error.amountReceived =
              auctionCall[p].quote - auctionCall[p].gasFeeInReceivingToken
        /\ auctionCall[p].error.balance = 0

\* C5 as stated: a request that follows a request with the same key passes the
\* rate-limit check iff the time it sampled is at least requestLimit ms after
\* the time the previous request sampled, whatever the previous request's outcome.
C5_Original ==
    \A p \in CallIds :
        LET call == auctionCall[p] IN
        (call.rateLimit # "unchecked" /\ call.previousRequestAt # 0) =>
            (call.rateLimit = "admitted" <=>
                call.currentTime * 1000 - call.previousRequestAt >= requestLimit)

\* C5 amended: a request passes the rate-limit check iff no earlier request
\* with its key has returned a bid, or the time it sampled is at least
\* requestLimit ms after the time sampled by the request with its key that
\* last returned a bid.
C5_RateLimitSinceLastBid ==
    \A p \in CallIds :
        LET call == auctionCall[p] IN
        call.rateLimit # "unchecked" =>
            (call.rateLimit = "admitted" <=>
                \/ call.lastBidSeen = 0
                \/ call.currentTime * 1000 - call.lastBidSeen >= requestLimit)

\* a request admitted exactly requestLimit ms after the last bid of its key
C5_Witness ==
    \E p \in CallIds :
        /\ auctionCall[p].rateLimit = "admitted"
        /\ auctionCall[p].lastBidSeen # 0
        /\ auctionCall[p].currentTime * 1000 - auctionCall[p].lastBidSeen = requestLimit

\* C6: of two overlapping calls with the same key that sampled times less
\* than requestLimit apart, at most one returns a bid.
C6_AtMostOneBidPerPeriod ==
    \A p, q \in CallIds :
        (/\ p # q
         /\ BidReturned(p)
         /\ BidReturned(q)
         /\ RequestKey(auctionCall[p].data) = RequestKey(auctionCall[q].data)
         /\ auctionCall[p].currentTime <= auctionCall[q].currentTime)
            => (auctionCall[q].currentTime - auctionCall[p].currentTime) * 1000
                  >= requestLimit

\* C7: in the step that signs the bid, both chains have a synced record, the
\* receiver liquidity is at least the bid's amountReceived and the native
\* balance is at least minGas on both chains.
C7_ConditionsHoldWhenSigning ==
    [][\A p \in CallIds :
         (auctionCall[p].pc = "signAuctionBid" /\ auctionCall'[p].pc = "done") =>
             LET data == auctionCall[p].data IN
             /\ \E i \in 1..Len(syncRecords[data.sendingChainId]) :
                    syncRecords[data.sendingChainId][i]
             /\ \E i \in 1..Len(syncRecords[data.receivingChainId]) :
                    syncRecords[data.receivingChainId][i]
             /\ assetBalance[data.receivingChainId] >= auctionCall[p].amountReceived
             /\ nativeBalance[data.sendingChainId] >= chainConfig[data.sendingChainId].minGas
             /\ nativeBalance[data.receivingChainId] >=
                    chainConfig[data.receivingChainId].minGas]_vars

\* the error of the earliest failing check of a call, in the order of the
\* list of C8, from the payload and the values the call has read
EarliestFailingCheck(call) ==
    IF ~call.data.valid THEN "ParamsInvalid"
    ELSE IF call.data.amount \notin {"1000000"} THEN "ZeroValueBid"
    ELSE IF call.rateLimit = "exceeded" THEN "AuctionRateExceeded"
    ELSE IF call.data.expiry <= call.currentTime + AUCTION_EXPIRY_BUFFER THEN "AuctionExpired"
    ELSE IF \E c \in {call.data.sendingChainId, call.data.receivingChainId} :
               chainConfig[c].providers = 0 THEN "ProvidersNotAvailable"
    ELSE IF TRUE \notin {call.receivingSyncRecords[i] :
                            i \in 1..Len(call.receivingSyncRecords)} THEN "SubgraphNotSynced"
    ELSE IF TRUE \notin {call.sendingSyncRecords[i] :
                            i \in 1..Len(call.sendingSyncRecords)} THEN "SubgraphNotSynced"
    ELSE IF call.data.receivingAssetId # "0xPooled" THEN "ParamsInvalid"
    ELSE IF call.quote < call.gasFeeInReceivingToken THEN "NotEnoughAmount"
    ELSE IF call.receiverLiquidity < call.quote - call.gasFeeInReceivingToken
         THEN "NotEnoughLiquidity"
    ELSE IF \/ call.senderBalance < chainConfig[call.data.sendingChainId].minGas
            \/ call.receiverBalance < chainConfig[call.data.receivingChainId].minGas
         THEN "NotEnoughGas"
    ELSE "none"

\* C8: a call that fails reports the error of the earliest failing check of
\* the list, and no error of another kind ahead of a failing check.
C8_EarliestFailingCheckReported ==
    \A p \in CallIds :
        (auctionCall[p].pc = "done" /\ auctionCall[p].error.kind # "none") =>
            auctionCall[p].error.kind = EarliestFailingCheck(auctionCall[p])

\* C9: every bid returned has expiry greater than the time the call sampled +
\* AUCTION_EXPIRY_BUFFER; a request that reaches the expiry check with expiry
\* at most that bound fails with AuctionExpired.
C9_BidExpiryBeyondBuffer ==
    \A p \in CallIds :
        LET call == auctionCall[p] IN
        /\ BidReturned(p) =>
              call.response.bid.expiry > call.currentTime + AUCTION_EXPIRY_BUFFER
        /\ (call.rateLimit = "admitted"
            /\ call.data.expiry <= call.currentTime + AUCTION_EXPIRY_BUFFER)
              => Failed(p, "AuctionExpired")

\* a request whose expiry equals the bound fails with AuctionExpired
C9_Witness ==
    \E p \in CallIds :
        /\ Failed(p, "AuctionExpired")
        /\ auctionCall[p].data.expiry = auctionCall[p].currentTime + AUCTION_EXPIRY_BUFFER

\* the list of sync records has a record with synced = true
AnyRecordSynced(records) ==
    TRUE \in {records[i] : i \in 1..Len(records)}

\* C10: a chain counts as synced iff one of the sync records read for it has
\* synced = true; a call that reads the records of a chain that is not synced
\* fails with SubgraphNotSynced carrying that chain and its record list, and
\* returns no bid.
C10_SyncedIffSomeRecordSynced ==
    \A p \in CallIds :
        LET call == auctionCall[p]
            stoppedAt(step) == call.pc = "done" /\ call.at = step
                                  /\ call.error.kind = "SubgraphNotSynced"
        IN
        /\ HasCompleted(p, "getSyncRecordsReceiving") =>
              /\ AnyRecordSynced(call.receivingSyncRecords)
                    <=> ~stoppedAt("getSyncRecordsReceiving")
              /\ stoppedAt("getSyncRecordsReceiving") =>
                    /\ call.error.chainId = call.data.receivingChainId
                    /\ call.error.records = call.receivingSyncRecords
                    /\ call.response = NoResponse
        /\ HasCompleted(p, "getSyncRecordsSending") =>
              /\ AnyRecordSynced(call.sendingSyncRecords)
                    <=> ~stoppedAt("getSyncRecordsSending")
              /\ stoppedAt("getSyncRecordsSending") =>
                    /\ call.error.chainId = call.data.sendingChainId
                    /\ call.error.records = call.sendingSyncRecords
                    /\ call.response = NoResponse
        /\ Failed(p, "SubgraphNotSynced") =>
              \/ stoppedAt("getSyncRecordsReceiving")
              \/ stoppedAt("getSyncRecordsSending")

\* a call that fails on an empty record list of the sending chain, after the
\* receiving chain was found synced through the second of its two records
C10_Witness ==
    \E p \in CallIds :
        /\ Failed(p, "SubgraphNotSynced")
        /\ auctionCall[p].error.chainId = auctionCall[p].data.sendingChainId
        /\ auctionCall[p].error.records = <<>>
        /\ auctionCall[p].receivingSyncRecords = <<FALSE, TRUE>>

\* C11: a request rejected as rate-limited carries the time elapsed since the
\* last attempt in milliseconds (1000 for a replay 1000 ms after it) and
\* minimalPeriod equal to config.requestLimit.
C11_RateExceededReportsElapsedMs ==
    \A p \in CallIds :
        LET call == auctionCall[p] IN
        Failed(p, "AuctionRateExceeded") =>
            /\ call.error.elapsed = call.currentTime * 1000 - call.error.lastAttemptTime
            /\ call.error.minimalPeriod = requestLimit

\* C14: a call returns a bid only if the native balances it read are at
\* least minGas on the sending and on the receiving chain, and a call that
\* read a balance below minGas fails with NotEnoughGas; a balance below
\* LOW_GAS that is at least minGas logs a warning and does not reject.
C14_NotEnoughGasBelowMinGas ==
    \A p \in CallIds :
        LET call == auctionCall[p]
            belowMin == \/ call.senderBalance < chainConfig[call.data.sendingChainId].minGas
                        \/ call.receiverBalance < chainConfig[call.data.receivingChainId].minGas
        IN
        /\ BidReturned(p) => ~belowMin
        /\ HasCompleted(p, "getBalance") =>
              /\ belowMin <=> Failed(p, "NotEnoughGas")
              /\ call.lowGasWarned <=>
                    (call.senderBalance < LOW_GAS \/ call.receiverBalance < LOW_GAS)
        /\ Failed(p, "NotEnoughGas") => HasCompleted(p, "getBalance")

\* a bid returned after the low gas warning: the sender balance is minGas,
\* below LOW_GAS, and the receiver balance is LOW_GAS
C14_Witness ==
    \E p \in CallIds :
        /\ BidReturned(p)
        /\ auctionCall[p].lowGasWarned
        /\ auctionCall[p].senderBalance = 1
        /\ auctionCall[p].receiverBalance = LOW_GAS

\* C15: the response of a successful call has no bidSignature iff the request
\* had dryRun = true, and for two requests that differ only in dryRun and
\* that got the same quote and gas fee, the responses have the same bid and
\* the same gasFeeInReceivingToken.
C15_DryRunSuppressesSignatureOnly ==
    /\ \A p \in CallIds :
          BidReturned(p) =>
             (auctionCall[p].response.bidSignature = "undefined"
                 <=> auctionCall[p].data.dryRun)
    /\ \A p, q \in CallIds :
          (/\ BidReturned(p)
           /\ BidReturned(q)
           /\ auctionCall[p].data.dryRun
           /\ auctionCall[q].data = [auctionCall[p].data EXCEPT !.dryRun = FALSE]
           /\ auctionCall[p].quote = auctionCall[q].quote
           /\ auctionCall[p].gasFeeInReceivingToken = auctionCall[q].gasFeeInReceivingToken)
             => /\ auctionCall[p].response.bid = auctionCall[q].response.bid
                /\ auctionCall[p].response.gasFeeInReceivingToken =
                      auctionCall[q].response.gasFeeInReceivingToken

\* a dry run and the same request without dryRun have both returned the same
\* bid with a nonzero gas fee, the first without and the second with a signature
C15_Witness ==
    \E p, q \in CallIds :
        /\ BidReturned(p)
        /\ BidReturned(q)
        /\ auctionCall[p].data.dryRun
        /\ auctionCall[q].data = [auctionCall[p].data EXCEPT !.dryRun = FALSE]
        /\ auctionCall[p].response.bid = auctionCall[q].response.bid
        /\ auctionCall[p].response.gasFeeInReceivingToken > 0
        /\ auctionCall[q].response.gasFeeInReceivingToken > 0
        /\ auctionCall[p].response.bidSignature = "undefined"
        /\ auctionCall[q].response.bidSignature = "signed"

\* the two payloads have the same user, assets and chains
SameKeyFields(d, e) ==
    /\ d.user = e.user
    /\ d.sendingAssetId = e.sendingAssetId
    /\ d.sendingChainId = e.sendingChainId
    /\ d.receivingAssetId = e.receivingAssetId
    /\ d.receivingChainId = e.receivingChainId

C17_ReceivedAuctionLabels ==
    [][\A p \in CallIds :
         IF auctionCall[p].pc = "idle" /\ auctionCall'[p].pc # "idle"
         THEN LET data == auctionCall'[p].data IN
              receivedAuction' =
                  [receivedAuction EXCEPT
                     ![[sendingAssetId |-> data.sendingAssetId,
                        receivingAssetId |-> data.receivingAssetId,
                        sendingChainId |-> data.sendingChainId,
                        receivingChainId |-> data.receivingChainId]] = @ + 1]
         ELSE auctionCall'[p] # auctionCall[p] => receivedAuction' = receivedAuction]_vars

(***************************************************************************)
(* Properties of calculateGasFee                                           *)
(***************************************************************************)

\* gasPrice * GAS_ESTIMATES[action] * ethPrice of a call of calculateGasFee
GasCostOf(call) ==
    oracle[call.chainId].gasPrice
        * (IF call.action = "prepare" THEN 100000 ELSE 200000)
        * oracle[call.chainId].ethPrice

\* C18 as stated: for a chain with a price oracle, calculateGasFee returns
\* floor(gasPrice * GAS_ESTIMATES[action] * ethPrice / tokenPrice), whatever
\* the decimals of the token.
C18_Original ==
    (gasFeeCall.pc = "done" /\ gasFeeCall.chainId \in CHAINS_WITH_PRICE_ORACLES) =>
        gasFeeCall.result = GasCostOf(gasFeeCall) \div oracle[gasFeeCall.chainId].tokenPrice

\* C18 amended: for a chain with a price oracle, calculateGasFee returns
\* floor(gasPrice * GAS_ESTIMATES[action] * ethPrice / tokenPrice) for a
\* token of 18 decimals, and that value divided by 10^(18 - decimals),
\* floor, for a token of fewer decimals.
C18_GasFeeScaledToDecimals ==
    (gasFeeCall.pc = "done" /\ gasFeeCall.chainId \in CHAINS_WITH_PRICE_ORACLES) =>
        LET quotient == GasCostOf(gasFeeCall) \div oracle[gasFeeCall.chainId].tokenPrice IN
        /\ gasFeeCall.decimals = 18 => gasFeeCall.result = quotient
        /\ gasFeeCall.decimals = 15 => gasFeeCall.result = quotient \div 1000

\* the fee of a fulfill for a token of 15 decimals: gas price 5, ethPrice 31,
\* tokenPrice 7, floor(5 * 200000 * 31 / 7) = 4428571, scaled to 4428
C18_Witness ==
    /\ gasFeeCall.pc = "done"
    /\ gasFeeCall.chainId \in CHAINS_WITH_PRICE_ORACLES
    /\ gasFeeCall.action = "fulfill"
    /\ gasFeeCall.decimals = 15
    /\ oracle[gasFeeCall.chainId] = [gasPrice |-> 5, ethPrice |-> 31, tokenPrice |-> 7]
    /\ gasFeeCall.result = 4428

\* C19 as stated: calculateGasFee returns 0 iff the chain has no price oracle.
C19_Original ==
    gasFeeCall.pc = "done" =>
        (gasFeeCall.result = 0 <=> gasFeeCall.chainId \notin CHAINS_WITH_PRICE_ORACLES)

\* C19 amended: calculateGasFee returns 0 for every chain without price
\* oracle; for a chain with one it returns 0 iff
\* gasPrice * GAS_ESTIMATES[action] * ethPrice is less than
\* tokenPrice * 10^(18 - decimals).
C19_ZeroFeeWithoutOracleOrBelowOneUnit ==
    gasFeeCall.pc = "done" =>
        IF gasFeeCall.chainId \notin CHAINS_WITH_PRICE_ORACLES
        THEN gasFeeCall.result = 0
        ELSE gasFeeCall.result = 0 <=>
                GasCostOf(gasFeeCall) <
                    oracle[gasFeeCall.chainId].tokenPrice
                        * (IF gasFeeCall.decimals = 18 THEN 1 ELSE 1000)

\* a fee of 0 for a chain with a price oracle and a nonzero gas price
C19_Witness ==
    /\ gasFeeCall.pc = "done"
    /\ gasFeeCall.chainId \in CHAINS_WITH_PRICE_ORACLES
    /\ oracle[gasFeeCall.chainId].gasPrice > 0
    /\ gasFeeCall.result = 0

\* C20: the gas fee of a call of newAuction is the fee of a fulfill on its
\* sending chain plus the fee of a prepare on its receiving chain, and the
\* response carries that sum as gasFeeInReceivingToken.
C20_GasFeeIsFulfillPlusPrepare ==
    \A p \in CallIds :
        LET call == auctionCall[p]
            sending == oracle[call.data.sendingChainId]
            receiving == oracle[call.data.receivingChainId]
        IN
        /\ HasCompleted(p, "getReceiverAmount") =>
              call.gasFeeInReceivingToken =
                  (sending.gasPrice * 200000 * sending.ethPrice) \div sending.tokenPrice
                    + (receiving.gasPrice * 100000 * receiving.ethPrice)
                          \div receiving.tokenPrice
        /\ BidReturned(p) =>
              call.response.gasFeeInReceivingToken = call.gasFeeInReceivingToken

\* a bid returned with a gas fee of 2: 1 for the fulfill on the sending chain
\* and 1 for the prepare on the receiving chain
C20_Witness ==
    \E p \in CallIds :
        /\ BidReturned(p)
        /\ auctionCall[p].response.gasFeeInReceivingToken = 2
        /\ oracle[auctionCall[p].data.sendingChainId].tokenPrice = 200000
        /\ oracle[auctionCall[p].data.receivingChainId].tokenPrice = 100000
        /\ oracle[auctionCall[p].data.receivingChainId].gasPrice = 1

\* C21: getTokenPrice and getTokenPriceFromOnChain, called for a chain
\* without deployed price oracle, fail with ChainNotSupported and issue no
\* read; called for a chain with one, they issue exactly one read, to the
\* oracle address of that chain, and what they return is the value read.
C21_TokenPriceReadsOracleOrChainNotSupported ==
    LET call == chainReader.call IN
    (call.op \in PriceOps /\ call.pc # "idle") =>
        IF call.chainId \notin CHAINS_WITH_PRICE_ORACLES
        THEN /\ call.pc = "done"
             /\ call.error = "ChainNotSupported"
             /\ call.reads = <<>>
             /\ call.providerCalls = <<>>
        ELSE /\ call.error # "ChainNotSupported"
             /\ Len(call.reads) = 1
             /\ call.reads[1] = [chainId |-> call.chainId,
                                 to |-> <<"PriceOracle", call.chainId>>]
             /\ Len(call.providerCalls) <= 1
             /\ (call.pc = "done" /\ call.error = "none") =>
                    /\ call.result = call.reply
                    /\ call.reply \in ProviderReplies \ {"RpcError"}

\* getTokenPrice has failed with ChainNotSupported for a chain that has a
\* provider and no price oracle
C21_Witness ==
    /\ chainReader.call.op = "getTokenPrice"
    /\ chainReader.call.pc = "done"
    /\ chainReader.call.error = "ChainNotSupported"
    /\ chainReader.call.chainId \in chainReader.providers

\* C22: each read operation, called for a chain that has a provider, calls
\* that provider exactly once, with the method of the operation; it returns
\* what the provider answered, and fails with the provider's error when the
\* provider fails.
C22_ReadCallsProviderOnce ==
    LET call == chainReader.call IN
    (call.op \in ReadOps /\ call.pc # "idle" /\ call.chainId \in chainReader.providers) =>
        /\ call.providerCalls =
              <<[provider |-> call.chainId,
                 method |-> IF call.op = "readTx" THEN "readTransaction" ELSE call.op,
                 to |-> ReadTarget]>>
        /\ call.pc = "done" =>
              IF call.reply = "RpcError"
              THEN call.error = "RpcError" /\ call.result = "none"
              ELSE call.error = "none" /\ call.result = call.reply

\* getBalance has failed with the RpcError of the provider
C22_Witness ==
    /\ chainReader.call.op = "getBalance"
    /\ chainReader.call.pc = "done"
    /\ chainReader.call.reply = "RpcError"
    /\ chainReader.call.error = "RpcError"

\* C23: a read operation called for a chain that has no provider fails with
\* ProviderNotConfigured, and calls no provider.
C23_ReadWithoutProviderFails ==
    LET call == chainReader.call IN
    (call.op \in ReadOps /\ call.pc # "idle"
        /\ call.chainId \notin DOMAIN chainReader.config) =>
        /\ call.pc = "done"
        /\ call.error = "ProviderNotConfigured"
        /\ call.providerCalls = <<>>

\* readTx for a chain the configuration does not list has failed with
\* ProviderNotConfigured, in a ChainReader that has providers of other chains
C23_Witness ==
    /\ chainReader.call.op = "readTx"
    /\ chainReader.call.pc = "done"
    /\ chainReader.call.error = "ProviderNotConfigured"
    /\ chainReader.call.chainId \notin DOMAIN chainReader.config
    /\ chainReader.providers # {}

\* C24: the setup of the providers fails with ConfigurationError when some
\* configured chain has an empty providers list: a ChainReader that operates
\* has at least one provider for every chain of its configuration, and a
\* ChainReader whose setup failed has served no call.
C24_NoChainReaderWithoutProviders ==
    chainReader.status # "new" =>
        IF \E c \in DOMAIN chainReader.config : chainReader.config[c] = 0
        THEN /\ chainReader.status = "ConfigurationError"
             /\ chainReader.count = 0
             /\ chainReader.call = IdleRead
        ELSE /\ chainReader.status = "operating"
             /\ chainReader.providers = DOMAIN chainReader.config

\* the setup has failed for a configuration in which one chain has a
\* provider and another has none
C24_Witness ==
    /\ chainReader.status = "ConfigurationError"
    /\ \E c \in DOMAIN chainReader.config : chainReader.config[c] = 0
    /\ \E c \in DOMAIN chainReader.config : chainReader.config[c] = 1

\* C25: a makeRouter that has failed at a startup step has exited with a
\* nonzero exit code: 1 when the step failed with a ConfigurationError, 2 when
\* the signer was unreachable.
C25_StartupFailureExitsNonzero ==
    (startup.pc = "exited" /\ startup.failedAt # "none") =>
        /\ startup.exitCode # 0
        /\ startup.error = "ConfigurationError" => startup.exitCode = 1
        /\ startup.error = "SignerUnreachable" => startup.exitCode = 2

\* C26: a cancel call whose invariantData or whose input does not match its
\* schema has failed with ParamsInvalid, and has read no receiver record, no
\* receipt and no block and has dispatched nothing; no other call fails with
\* ParamsInvalid.
C26_InvalidCancelParamsRejected ==
    \A c \in CancelIds :
        cancelCall[c].pc # "idle" =>
            IF ~cancelCall[c].validInvariantData \/ ~cancelCall[c].validInput
            THEN /\ cancelCall[c].pc = "done"
                 /\ cancelCall[c].error = "ParamsInvalid"
                 /\ cancelCall[c].reads = {}
                 /\ ~cancelCall[c].sent
            ELSE cancelCall[c].error # "ParamsInvalid"

\* a sender cancel whose invariantData failed its schema, while its input
\* passed, has failed with ParamsInvalid although nothing else blocks it
C26_Witness ==
    \E c \in CancelIds :
        /\ cancelCall[c].pc = "done"
        /\ cancelCall[c].side = "sender"
        /\ ~cancelCall[c].validInvariantData
        /\ cancelCall[c].validInput
        /\ cancelCall[c].error = "ParamsInvalid"
        /\ recvRecord = NoRecord
        /\ now >= preparedAt + 780

\* two addresses are the same address, whatever the case of their letters
SameAddress(a, b) ==
    getAddress(a) = getAddress(b)

\* C27: every step that dispatches a cancel passes, for the receiver side of
\* a router contract, the fee computed with the action cancel and as fee asset
\* the configured routerContractRelayerAsset, or AddressZero when none is
\* configured; for the sender side and for a router that is not a router
\* contract it passes the fee 0 and the asset AddressZero, and no fee has
\* been computed.
C27_RelayerFeeOnlyForReceiverRouterContract ==
    [][\A c \in CancelIds :
         (cancelCall[c].pc = "contractWriter" /\ cancelCall'[c].sent) =>
            LET sentCall == dispatched'[Len(dispatched')] IN
            IF cancelCall[c].side = "receiver" /\ isRouterContract
            THEN /\ cancelCall[c].feeAction = "cancel"
                 /\ sentCall.relayerFee = cancelCall[c].relayerFee
                 /\ IF relayerAsset = ""
                    THEN sentCall.relayerFeeAsset = AddressZero
                    ELSE SameAddress(sentCall.relayerFeeAsset, relayerAsset)
            ELSE /\ cancelCall[c].feeAction = "none"
                 /\ sentCall.relayerFee = 0
                 /\ sentCall.relayerFeeAsset = AddressZero]_vars

\* a receiver cancel of a router contract without configured relayer asset
\* was dispatched with a nonzero fee in the asset AddressZero
C27_Witness ==
    /\ isRouterContract
    /\ relayerAsset = ""
    /\ Len(dispatched) > 0
    /\ dispatched[Len(dispatched)].side = "receiver"
    /\ dispatched[Len(dispatched)].relayerFee = 7
    /\ dispatched[Len(dispatched)].relayerFeeAsset = AddressZero

\* C28: a step that dispatches a receiver-side cancel is taken only when the
\* expiry of the receiver-side transaction has passed.
C28_ReceiverCancelOnlyAfterExpiry ==
    [][\A c \in CancelIds :
         (/\ cancelCall[c].side = "receiver"
          /\ cancelCall[c].pc = "contractWriter"
          /\ cancelCall'[c].sent) => cancelCall[c].expiry <= now]_vars

\* C29: every step that changes the rate-limiter map is the step of a call
\* that has just got the signature of its bid and returns the bid, and it
\* changes the entry of that call's key only; the step in which a call fails
\* leaves the map unchanged.
C29_RequestMapWrittenOnlyAfterSigning ==
    [][/\ AUCTION_REQUEST_MAP' # AUCTION_REQUEST_MAP =>
            \E p \in CallIds :
                /\ auctionCall[p].pc = "signAuctionBid"
                /\ auctionCall'[p].pc = "done"
                /\ auctionCall'[p].error = NoError
                /\ auctionCall'[p].bidSignature = "signed"
                /\ auctionCall'[p].response.bid # NoBid
                /\ \A k \in Keys \ {RequestKey(auctionCall[p].data)} :
                       AUCTION_REQUEST_MAP'[k] = AUCTION_REQUEST_MAP[k]
       /\ \A p \in CallIds :
            (auctionCall[p].error = NoError /\ auctionCall'[p].error # NoError) =>
                AUCTION_REQUEST_MAP' = AUCTION_REQUEST_MAP]_vars

\* a call that passed every check has failed at the signature of its bid,
\* and the map has no entry for its key
C29_Witness ==
    \E p \in CallIds :
        /\ auctionCall[p].pc = "done"
        /\ auctionCall[p].error.kind = "SignerError"
        /\ AUCTION_REQUEST_MAP[RequestKey(auctionCall[p].data)] = 0

\* C30: a dryRun request that returned a bid has recorded the time it
\* sampled, in milliseconds, under its key, as a request that is not a dry
\* run does; a request with the same key that is not a dry run and samples a
\* time less than requestLimit later is rejected with AuctionRateExceeded.
C30_DryRunCountsForRateLimit ==
    LET first == auctionCall[1]
        second == auctionCall[2]
    IN
    (first.pc = "done" /\ first.response.bid # NoBid) =>
        /\ second.response.bid = NoBid =>
              AUCTION_REQUEST_MAP[RequestKey(first.data)] = first.currentTime * 1000
        /\ (/\ first.data.dryRun
            /\ ~second.data.dryRun
            /\ second.rateLimit # "unchecked"
            /\ RequestKey(second.data) = RequestKey(first.data)
            /\ (second.currentTime - first.currentTime) * 1000 < requestLimit) =>
               /\ second.pc = "done"
               /\ second.error.kind = "AuctionRateExceeded"

\* a request that is not a dry run, made 1 s after a dry run with the same
\* key returned a bid without signature, was rejected with AuctionRateExceeded
C30_Witness ==
    /\ auctionCall[1].pc = "done"
    /\ auctionCall[1].data.dryRun
    /\ auctionCall[1].response.bid # NoBid
    /\ auctionCall[1].response.bidSignature = "undefined"
    /\ ~auctionCall[2].data.dryRun
    /\ auctionCall[2].currentTime = auctionCall[1].currentTime + 1
    /\ auctionCall[2].error.kind = "AuctionRateExceeded"

\* C31: no step lowers the last-attempt time the rate-limiter map holds for
\* a key, whatever the order in which overlapping calls sample the time and
\* complete.
C31_LastAttemptTimeNeverDecreases ==
    [][\A k \in Keys : AUCTION_REQUEST_MAP'[k] >= AUCTION_REQUEST_MAP[k]]_vars

\* C32: a cancel call that has returned a receipt has invoked
\* contractWriter.cancel, on the sending chain for the sender side and on the
\* receiving chain otherwise, with the signature "0x" and the expiry of its
\* input in txData; a call that has failed has not invoked it; and the number
\* of invocations is at most the number of calls that have invoked it, so no
\* call invokes it twice.
C32_CancelDispatchedExactlyOnce ==
    /\ \A c \in CancelIds :
         cancelCall[c].pc = "done" =>
            IF cancelCall[c].error = "none"
            THEN /\ cancelCall[c].sent
                 /\ \E i \in 1..Len(dispatched) :
                       /\ dispatched[i].side = cancelCall[c].side
                       /\ dispatched[i].expiry = cancelCall[c].expiry
            ELSE ~cancelCall[c].sent
    /\ \A i \in 1..Len(dispatched) :
         /\ dispatched[i].chainId =
               IF dispatched[i].side = "sender" THEN 1337 ELSE 1338
         /\ dispatched[i].signature = "0x"
    /\ Len(dispatched) + Cardinality({c \in CancelIds :
                                        cancelCall[c].pc # "idle" /\ ~cancelCall[c].sent})
          <= cancelCount

\* a receiver cancel has returned its receipt as the second of two calls, of
\* which the first failed: one invocation, on chain 1338
C32_Witness ==
    /\ cancelCount = 2
    /\ Len(dispatched) = 1
    /\ dispatched[1].chainId = 1338
    /\ \E c \in CancelIds :
         /\ cancelCall[c].pc = "done"
         /\ cancelCall[c].side = "receiver"
         /\ cancelCall[c].error = "none"

\* the receipt of the sender prepare was not found: the call has read the
\* receipt and ended before it read the block
ReceiptNotFound(c) ==
    /\ cancelCall[c].pc = "done"
    /\ "getTransactionReceipt" \in cancelCall[c].reads
    /\ "getBlock" \notin cancelCall[c].reads

\* the block of the sender prepare was not found
BlockNotFound(c) ==
    /\ "getBlock" \in cancelCall[c].reads
    /\ cancelCall[c].preparedBlock = NoBlock

\* C33: a sender cancel for which the receipt of the sender prepare, or its
\* block, was not found has failed with SenderTxTooNew and has dispatched
\* nothing.
C33_MissingReceiptOrBlockIsSenderTxTooNew ==
    \A c \in CancelIds :
        (cancelCall[c].side = "sender" /\ (ReceiptNotFound(c) \/ BlockNotFound(c))) =>
            /\ cancelCall[c].pc = "done"
            /\ cancelCall[c].error = "SenderTxTooNew"
            /\ ~cancelCall[c].sent

\* C34: in the response of a newAuction call that returned a bid, the bid's
\* amountReceived plus gasFeeInReceivingToken is the amount the liquidity
\* model computed for the request, and gasFeeInReceivingToken is the fee the
\* call computed.
C34_BidPlusFeeIsQuote ==
    \A p \in CallIds :
        (auctionCall[p].pc = "done" /\ auctionCall[p].response.bid # NoBid) =>
            /\ auctionCall[p].response.bid.amountReceived
                  + auctionCall[p].response.gasFeeInReceivingToken = auctionCall[p].quote
            /\ auctionCall[p].response.gasFeeInReceivingToken =
                  auctionCall[p].gasFeeInReceivingToken

\* a bid of 1 returned for an amount of 3 computed by the liquidity model and
\* a gas fee of 2
C34_Witness ==
    \E p \in CallIds :
        /\ auctionCall[p].pc = "done"
        /\ auctionCall[p].quote = 3
        /\ auctionCall[p].response.gasFeeInReceivingToken = 2
        /\ auctionCall[p].response.bid.amountReceived = 1

\* C35: a getContext call made at any point of makeRouter has thrown
\* "Context not created", or has returned a context in which config, wallet,
\* logger, messaging, txService, contractReader and contractWriter are set.
C35_NoPartialContext ==
    startup.got.called =>
        \/ startup.got.threw
        \/ ContextFields \subseteq startup.got.context

\* C36: once makeRouter has logged the configuration, context.config holds
\* the values of the configuration that was loaded, the mnemonic included.
C36_ConfigUnchangedByLog ==
    "config" \in startup.context => startup.config = startup.loaded

\* the bindings the loaded configuration asks for, in order
ExpectedBindings ==
    SelectSeq(BindSteps,
              LAMBDA step :
                 CASE step = "bindContractReader" -> ~startup.loaded.diagnosticMode
                   [] step = "bindMessaging" -> ~startup.loaded.cleanUpMode
                   [] step = "bindPrices" -> startup.loaded.priceCacheMode
                   [] OTHER -> TRUE)

\* C37: the bindings that have completed are, in order, the first ones of:
\* the contract reader unless diagnosticMode, messaging unless cleanUpMode,
\* prices if priceCacheMode, fastify, metrics; the binding in progress is
\* the next one of these; no binding starts before messaging has connected;
\* and the router is ready when all of them have completed.
C37_BindingsInOrder ==
    /\ Len(startup.bound) <= Len(ExpectedBindings)
    /\ startup.bound = SubSeq(ExpectedBindings, 1, Len(startup.bound))
    /\ (\E i \in 1..Len(BindSteps) : startup.pc = BindSteps[i]) =>
          /\ Len(startup.bound) < Len(ExpectedBindings)
          /\ startup.pc = ExpectedBindings[Len(startup.bound) + 1]
          /\ startup.connected
    /\ startup.bound # <<>> => startup.connected
    /\ startup.pc = "ready" => startup.bound = ExpectedBindings

\* a router in diagnostic mode and in price cache mode is ready: it has bound
\* messaging, prices, fastify and metrics, and not the contract reader
C37_Witness ==
    /\ startup.pc = "ready"
    /\ startup.loaded.diagnosticMode
    /\ ~startup.loaded.cleanUpMode
    /\ startup.loaded.priceCacheMode
    /\ startup.bound = <<"bindMessaging", "bindPrices", "bindFastify", "bindMetrics">>

\* C38: a getContext call made while the context holds nothing has thrown
\* "Context not created".
C38_EmptyContextThrows ==
    (startup.got.called /\ startup.got.context = {}) => startup.got.threw

\* getContext has thrown while makeRouter awaits getChainData
C38_Witness ==
    /\ startup.pc = "getChainData"
    /\ startup.got.called
    /\ startup.got.threw

====
